---- MODULE Spec2Model ----
(***************************************************************************)
(* State-space search engine of the CSC384 Sokoban assignment:             *)
(* SearchNode and OpenNodeCollection (search_node.py), StateSpace          *)
(* (state.py) and SearchEngine (search_engine.py).                         *)
(*                                                                         *)
(* Python objects live in arenas: `states` holds every StateSpace object   *)
(* in creation order and a parent link is an arena position (0 for None).  *)
(* Lists, deques and heaps are sequences; code position p is sequence      *)
(* position p + 1.                                                         *)
(***************************************************************************)
EXTENDS Integers, Sequences, FiniteSets, TLC

(* ---------------- search_constants.py ---------------- *)
_DEPTH_FIRST == 0
_BREADTH_FIRST == 1
_BEST_FIRST == 2
_ASTAR == 3
_UCS == 4
_CUSTOM == 5

_SEARCH_STRATEGY_MAP ==
  [s \in {"depth_first", "breadth_first", "best_first", "astar", "ucs", "custom"} |->
     CASE s = "depth_first" -> _DEPTH_FIRST
       [] s = "breadth_first" -> _BREADTH_FIRST
       [] s = "best_first" -> _BEST_FIRST
       [] s = "astar" -> _ASTAR
       [] s = "ucs" -> _UCS
       [] s = "custom" -> _CUSTOM]

_SUM_HG == 0
_H == 1
_G == 2
_C == 3

_CC_NONE == 0
_CC_PATH == 1
_CC_FULL == 2

_CYCLE_CHECK_MAP ==
  [c \in {"default", "none", "path", "full"} |->
     CASE c = "default" -> _CC_FULL
       [] c = "none" -> _CC_NONE
       [] c = "path" -> _CC_PATH
       [] c = "full" -> _CC_FULL]

(* A value that may be None (or a result that may be False, or a bound that may *)
(* be math.inf) is a sequence: empty for None / False / inf, <<v>> for v.       *)
None == <<>>
False == <<>>
Inf == <<>>
Some(v) == <<v>>
Val(o) == o[1]

(* ---------------- bounds of the model ---------------- *)
(* StateSpace objects one run may create before the model stops following it. *)
MaxStates == 9
(* Heuristic values range over 0..MaxH. *)
MaxH == 1
(* Nodes one frontier exercise inserts, and the largest g + h of such a node. *)
MaxInserts == 4
MaxKey == 1
(* The clock reads 0..MaxClock. *)
MaxClock == 2
(* Calls of init_search on one engine. *)
MaxRuns == 2

VARIABLES
  strategy,          \* SearchEngine.strategy
  cc,                \* SearchEngine.cc
  n_cc_pruned,       \* SearchEngine.n_cc_pruned
  n_cost_pruned,     \* SearchEngine.n_cost_pruned
  open_nodes,        \* SearchEngine.open_nodes: None or an OpenNodeCollection
  path_to_gval,      \* SearchEngine.path_to_gval: the cycle-check dictionary
  goal_fn,           \* SearchEngine.goal_fn: None or the set of goal identities
  heur_fn,           \* SearchEngine.heur_fn: None or identity -> h
  fval_function,     \* SearchEngine.fval_function: None or a scoring function
  search_start_time, \* SearchEngine.search_start_time
  search_stop_time,  \* SearchEngine.search_stop_time
  SearchNode_n,      \* class variable SearchNode.n
  StateSpace_n,      \* class variable StateSpace.n
  lt_type,           \* class variable SearchNode.lt_type
  states,            \* every StateSpace object created, in creation order
  graph,             \* the problem: identity -> list of <<identity, action cost>>
  clock,             \* what os.times()[0] reads
  pc,                \* where the caller / search() is
  node,              \* _searchOpen's local `node` (the last node extracted)
  successors,        \* _searchOpen's local `successors` (arena positions)
  si,                \* position of the for loop in `successors`
  costbound,         \* search()'s argument costbound
  ret,               \* what search() returned: None until it returns
  h_before,          \* history: the frontier's list just before the last extract()
  h_log,             \* history: the expansions and dictionary writes, in order
  h_last,            \* history: the successor the for loop has just processed
  h_inv,             \* history: what the current call of search() has done so far
  h_ctor,            \* history: the arguments the engine was constructed with
  h_call,            \* history: the last set_strategy / set_cycle_check call
  raised,            \* the exception the last call raised: None or its name
  runs,              \* number of init_search calls made on the engine
  engine2,           \* a second SearchEngine: None until its init_search, then its strategy
  faults,            \* the identities on which goal_fn, heur_fn and successors() raise
  h_iters            \* history: the engine searches a function of solution.py has run

(* The variables a search run leaves alone. *)
session == <<h_ctor, h_call, engine2, faults, h_iters>>

vars ==
  <<strategy, cc, n_cc_pruned, n_cost_pruned, open_nodes, path_to_gval, goal_fn,
    heur_fn, fval_function, search_start_time, search_stop_time, SearchNode_n,
    StateSpace_n, lt_type, states, graph, clock, pc, node, successors, si,
    costbound, ret, h_before, h_log, h_last, h_inv, h_ctor, h_call, raised, runs,
    engine2, faults, h_iters>>

(* ---------------- search_node.py: SearchNode ---------------- *)

(* A scoring function for the custom strategy: node -> wg * gval + wh * hval. *)
(* _fval_function (search_engine.py) is hval alone.                           *)
_fval_function == [wg |-> 0, wh |-> 1]
WeightedFval == [wg |-> 1, wh |-> 2]
FvalFns == {_fval_function, WeightedFval}

ApplyFval(f, n) == f.wg * n.gval + f.wh * n.hval

(* SearchNode.__init__: the node built from arena state s; the caller adds 1 to SearchNode.n. *)
NewSearchNode(sts, s, hval, fval_fn, n) ==
  [state |-> s, hval |-> hval, gval |-> sts[s].gval, index |-> n, fval_function |-> fval_fn]

(* A comparison that ignores lt_type and orders by h-value alone. *)
LtByHvalOnly(self, other, lt) == self.hval < other.hval

(* A comparison without the tie-break on g: tied nodes are never less. *)
LtNoTieBreak(self, other, lt) ==
  IF lt = _SUM_HG THEN self.gval + self.hval < other.gval + other.hval
  ELSE IF lt = _H THEN self.hval < other.hval
  ELSE IF lt = _C THEN
    ApplyFval(self.fval_function, self) < ApplyFval(other.fval_function, other)
  ELSE self.gval < other.gval

(* SearchNode.__lt__ under the class variable lt_type. *)
Lt(self, other, lt) ==
  IF lt = _SUM_HG THEN
    IF self.gval + self.hval = other.gval + other.hval
      THEN self.gval > other.gval
      ELSE self.gval + self.hval < other.gval + other.hval
  ELSE IF lt = _G THEN self.gval < other.gval
  ELSE IF lt = _H THEN
    IF self.hval = other.hval THEN self.gval > other.gval ELSE self.hval < other.hval
  ELSE IF lt = _C THEN
    ApplyFval(self.fval_function, self) < ApplyFval(other.fval_function, other)
  ELSE self.gval < other.gval

(* ---------------- heapq, as OpenNodeCollection uses it ---------------- *)

RECURSIVE SiftdownLoop(_, _, _, _, _)
SiftdownLoop(heap, startpos, pos, newitem, lt) ==
  IF pos > startpos /\ Lt(newitem, heap[((pos - 1) \div 2) + 1], lt)
    THEN SiftdownLoop([heap EXCEPT ![pos + 1] = heap[((pos - 1) \div 2) + 1]],
                      startpos, (pos - 1) \div 2, newitem, lt)
    ELSE [heap EXCEPT ![pos + 1] = newitem]

(* heapq._siftdown(heap, startpos, pos) *)
Siftdown(heap, startpos, pos, lt) == SiftdownLoop(heap, startpos, pos, heap[pos + 1], lt)

RECURSIVE SiftupLoop(_, _, _, _, _)
SiftupLoop(heap, startpos, pos, newitem, lt) ==
  LET endpos == Len(heap)
      childpos == 2 * pos + 1
      rightpos == childpos + 1
      pick == IF rightpos < endpos /\ ~Lt(heap[childpos + 1], heap[rightpos + 1], lt)
                THEN rightpos ELSE childpos
  IN  IF childpos < endpos
        THEN SiftupLoop([heap EXCEPT ![pos + 1] = heap[pick + 1]], startpos, pick, newitem, lt)
        ELSE SiftdownLoop([heap EXCEPT ![pos + 1] = newitem], startpos, pos, newitem, lt)

(* heapq._siftup(heap, pos) *)
Siftup(heap, pos, lt) == SiftupLoop(heap, pos, pos, heap[pos + 1], lt)

(* A heappush that forgets to sift: the item stays where it was appended. *)
HeappushNoSift(heap, item, lt) == Append(heap, item)

(* heapq.heappush(heap, item) *)
Heappush(heap, item, lt) == Siftdown(Append(heap, item), 0, Len(heap), lt)

(* heapq.heappop(heap): <<the item returned, the heap left>> *)
Heappop(heap, lt) ==
  LET lastelt == heap[Len(heap)]
      rest == SubSeq(heap, 1, Len(heap) - 1)
  IN  IF rest = <<>> THEN <<lastelt, rest>>
      ELSE <<rest[1], Siftup([rest EXCEPT ![1] = lastelt], 0, lt)>>

(* ---------------- search_node.py: OpenNodeCollection ---------------- *)

IsHeapStrategy(s) == s \in {_UCS, _BEST_FIRST, _ASTAR, _CUSTOM}

(* The value OpenNodeCollection.__init__ gives the class variable lt_type. *)
LtTypeAfterInit(search_strategy, lt) ==
  CASE search_strategy = _UCS -> _G
    [] search_strategy = _BEST_FIRST -> _H
    [] search_strategy = _ASTAR -> _SUM_HG
    [] search_strategy = _CUSTOM -> _C
    [] OTHER -> lt

(* OpenNodeCollection.__init__: insert and extract are bound here, once. *)
OpenNodeCollection(search_strategy) == [strategy |-> search_strategy, open |-> <<>>]

(* self.insert(node) *)
Insert(coll, n, lt) ==
  IF IsHeapStrategy(coll.strategy)
    THEN [coll EXCEPT !.open = Heappush(coll.open, n, lt)]
    ELSE [coll EXCEPT !.open = Append(coll.open, n)]

(* An extract that always takes the list's first element. *)
ExtractFirst(coll, lt) ==
  <<coll.open[1], [coll EXCEPT !.open = Tail(coll.open)]>>

(* An extract that returns a node and leaves it in the collection. *)
ExtractAndKeep(coll, lt) ==
  <<IF coll.strategy = _DEPTH_FIRST THEN coll.open[Len(coll.open)] ELSE coll.open[1], coll>>

(* self.extract(): <<the node returned, the collection left>> *)
Extract(coll, lt) ==
  IF coll.strategy = _DEPTH_FIRST
    THEN <<coll.open[Len(coll.open)],
           [coll EXCEPT !.open = SubSeq(coll.open, 1, Len(coll.open) - 1)]>>
  ELSE IF coll.strategy = _BREADTH_FIRST
    THEN <<coll.open[1], [coll EXCEPT !.open = Tail(coll.open)]>>
  ELSE <<Heappop(coll.open, lt)[1], [coll EXCEPT !.open = Heappop(coll.open, lt)[2]]>>

(* OpenNodeCollection.is_empty *)
IsEmpty(coll) == coll.open = <<>>

(* ---------------- state.py: StateSpace ---------------- *)

(* StateSpace.__init__: the object that takes index n; the caller adds 1 to StateSpace.n. *)
NewStateSpace(hash, gval, parent, n) ==
  [hash |-> hash, gval |-> gval, parent |-> parent, index |-> n]

(* The arena positions of the ancestors of position s, nearest first. *)
RECURSIVE Ancestors(_, _)
Ancestors(sts, s) ==
  IF sts[s].parent = 0 THEN <<>> ELSE <<sts[s].parent>> \o Ancestors(sts, sts[s].parent)

(* A path check that looks at the parent only. *)
HasPathCycleParentOnly(sts, s) ==
  sts[s].parent # 0 /\ sts[sts[s].parent].hash = sts[s].hash

(* StateSpace.has_path_cycle *)
HasPathCycle(sts, s) ==
  \E k \in 1..Len(Ancestors(sts, s)) : sts[Ancestors(sts, s)[k]].hash = sts[s].hash

(* StateSpace.successors, for the problem `g`: one new object per edge, in the *)
(* order the problem lists them, created with indices n, n + 1, ...            *)
Successors(g, sts, s, n) ==
  [k \in 1..Len(g[sts[s].hash]) |->
     NewStateSpace(g[sts[s].hash][k][1], sts[s].gval + g[sts[s].hash][k][2], s, n + k - 1)]

(* ---------------- the problems searched ---------------- *)

(* Identities are 1..Len(g); the initial state has identity 1 and path cost 0. *)
(* Diamond: identity 3 is reached at cost 5 directly and at cost 3 through 2.  *)
Diamond == << << <<3, 5>>, <<2, 1>> >>, << <<3, 2>> >>, << <<4, 1>> >>, << >> >>
(* A cycle of zero-cost actions between 1 and 2, and an exit to 3.             *)
ZeroCycle == << << <<2, 0>>, <<3, 1>> >>, << <<1, 0>> >>, << >> >>
(* Identity 3 is reached at cost 1 directly and at cost 0 through 2.           *)
Shortcut == << << <<2, 0>>, <<3, 1>> >>, << <<3, 0>> >>, << >> >>
(* A cycle of positive cost through all three identities; identity 3 is       *)
(* reached at cost 2 both directly and through 2.                             *)
Triangle == << << <<2, 1>>, <<3, 2>> >>, << <<3, 1>>, <<1, 1>> >>, << <<1, 1>> >> >>
Graphs == {Diamond, ZeroCycle, Shortcut, Triangle}

Ids(g) == 1..Len(g)
InitHash == 1
GoalFns(g) == {{}} \cup {{i} : i \in Ids(g)}
HeurFns(g) == [Ids(g) -> 0..MaxH]

(* A cost bound is None or a triple <<g bound, h bound, g + h bound>>. *)
CostBounds ==
  {None, Some(<<Some(1), Inf, Inf>>), Some(<<Inf, Some(0), Inf>>), Some(<<Inf, Inf, Some(2)>>)}
Exceeds(x, b) == b # Inf /\ x > Val(b)

(* ---------------- search_engine.py: SearchEngine ---------------- *)

(* A dictionary in which the first value written under a key stays. *)
DictSetOnce(d, k, v) == [x \in (DOMAIN d) \cup {k} |-> IF x \in DOMAIN d THEN d[x] ELSE v]

(* d[k] = v *)
DictSet(d, k, v) == [x \in (DOMAIN d) \cup {k} |-> IF x = k THEN v ELSE d[x]]

(* A resolution of the identifier that never looks at the strategy. *)
ResolveCcFromMap(cc_name, strat) == _CYCLE_CHECK_MAP[cc_name]

(* set_cycle_check: the mode the identifier cc_name resolves to. *)
ResolveCc(cc_name, strat) ==
  IF cc_name = "default" /\ strat = _DEPTH_FIRST THEN _CC_PATH ELSE _CYCLE_CHECK_MAP[cc_name]

(* A full check that also rejects a successor of equal cost. *)
ContainsFullCycleOrEqual(ccv, ledger, sts, s) ==
  /\ ccv = _CC_FULL
  /\ sts[s].hash \in DOMAIN ledger
  /\ sts[s].gval >= ledger[sts[s].hash]

(* is_prunable: contains_full_cycle *)
ContainsFullCycle(ccv, ledger, sts, s) ==
  /\ ccv = _CC_FULL
  /\ sts[s].hash \in DOMAIN ledger
  /\ sts[s].gval > ledger[sts[s].hash]

(* A path check that compares the successor with its parent only. *)
ContainsPathCycleParentOnly(ccv, sts, s) == ccv = _CC_PATH /\ HasPathCycleParentOnly(sts, s)

(* is_prunable: contains_path_cycle *)
ContainsPathCycle(ccv, sts, s) == ccv = _CC_PATH /\ HasPathCycle(sts, s)

(* SearchEngine.is_prunable *)
IsPrunable(ccv, ledger, sts, s) ==
  ContainsFullCycle(ccv, ledger, sts, s) \/ ContainsPathCycle(ccv, sts, s)

(* A staleness test that never skips. *)
IsStaleNever(ccv, ledger, sts, n) == FALSE

(* The staleness test of _searchOpen: the node is skipped, not expanded. *)
IsStale(ccv, ledger, sts, n) ==
  ccv = _CC_FULL /\ ledger[sts[n.state].hash] < n.gval

(* A cost-bound test that forgets the bound on g + h. *)
OverCostBoundNoSum(cb, gval, hval) ==
  /\ cb # None
  /\ (Exceeds(gval, Val(cb)[1]) \/ Exceeds(hval, Val(cb)[2]))

(* The cost-bound test of _searchOpen. *)
OverCostBound(cb, gval, hval) ==
  /\ cb # None
  /\ \/ Exceeds(gval, Val(cb)[1])
     \/ Exceeds(hval, Val(cb)[2])
     \/ Exceeds(gval + hval, Val(cb)[3])

(* SearchStatistics.__init__, as search() calls it. *)
SearchStatistics(n_expanded, n_generated, n_pruned_cycles, pruned_cost, total_time) ==
  [states_expanded |-> n_expanded, states_generated |-> n_generated,
   states_pruned_cycles |-> n_pruned_cycles, states_pruned_cost |-> pruned_cost,
   total_time |-> total_time]

(* Statistics whose expanded count is the number of nodes whose successors were *)
(* enumerated, in place of SearchNode.n.                                        *)
SearchResultOfExpansions(r, nn, sn, ncc, ncost, total_time) ==
  [state |-> IF r = False THEN False ELSE Some(Val(r).state),
   stats |-> SearchStatistics(h_inv.expanded, sn, ncc, ncost, total_time)]

(* search(): the pair returned for _searchOpen's result r (a node or False). *)
SearchResult(r, nn, sn, ncc, ncost, total_time) ==
  [state |-> IF r = False THEN False ELSE Some(Val(r).state),
   stats |-> SearchStatistics(nn, sn, ncc, ncost, total_time)]

(* ---------------- the engine's operations ---------------- *)

(* An entry of the history h_log: an expansion of a node of identity hash and *)
(* cost gval, or a write of gval under key hash in the dictionary.            *)
Event(ev, hash, gval) == [ev |-> ev, hash |-> hash, gval |-> gval]

(* What one call of search() was given and has done: its timebound argument, the  *)
(* nodes expanded, the successors pruned and inserted, whether a node was         *)
(* extracted when the clock had passed start + timebound, how _searchOpen ended,  *)
(* the nodes extracted, the times the clock was compared with the deadline,       *)
(* whether the call went on from an earlier search(), and the indices of the      *)
(* nodes returned, of the nodes expanded and of the nodes extracted by an         *)
(* iteration that ended in a timeout, since init_search.                          *)
NoInvocation ==
  [timebound |-> None, expanded |-> 0, cc_pruned |-> 0, cost_pruned |-> 0,
   inserted |-> 0, late |-> FALSE, outcome |-> None, extracted |-> 0,
   deadline_tests |-> 0, resumed |-> FALSE, returned |-> <<>>, expanded_nodes |-> {},
   timed_out |-> {}]

(* A caller whose goal_fn, heur_fn and successors() never raise. *)
NoFaults == [goal |-> {}, heur |-> {}, succ |-> {}]

(* The engine catches what the call raises and goes on. *)
RaisesSwallowed(fault_ids, hash) == FALSE

(* The call of a caller's function on the state of identity hash raises, and the *)
(* engine has no handler around it.                                              *)
Raises(fault_ids, hash) == hash \in fault_ids

(* The value of a keyword argument: the default when the caller omits it. *)
ArgOr(arg, default) == IF arg = None THEN default ELSE Val(arg)

(* SearchEngine.__init__(strategy, cc), with no StateSpace object created yet; *)
(* an argument is None when the caller omits it.                               *)
EngineInit(strategy_arg, cc_arg) ==
  /\ strategy = _SEARCH_STRATEGY_MAP[ArgOr(strategy_arg, "breadth_first")]
  /\ cc = ResolveCc(ArgOr(cc_arg, "default"),
                    _SEARCH_STRATEGY_MAP[ArgOr(strategy_arg, "breadth_first")])
  /\ h_ctor = [strategy |-> strategy_arg, cc |-> cc_arg]
  /\ h_call = None
  /\ raised = None
  /\ runs = 0
  /\ engine2 = None
  /\ h_iters = <<>>
  /\ h_inv = NoInvocation
  /\ n_cc_pruned = 0
  /\ n_cost_pruned = 0
  /\ open_nodes = None
  /\ path_to_gval = <<>>
  /\ goal_fn = None
  /\ heur_fn = None
  /\ fval_function = None
  /\ search_start_time = Some(-1)
  /\ search_stop_time = Some(-1)
  /\ SearchNode_n = 0
  /\ StateSpace_n = 0
  /\ lt_type = _SUM_HG
  /\ states = <<>>
  /\ clock = 0
  /\ node = None
  /\ successors = <<>>
  /\ si = 0
  /\ costbound = None
  /\ ret = None
  /\ h_before = <<>>
  /\ h_log = <<>>
  /\ h_last = None

Init ==
  /\ graph \in Graphs
  /\ pc = "new"
  /\ faults = NoFaults
  /\ \E strategy_name \in DOMAIN _SEARCH_STRATEGY_MAP, cc_name \in DOMAIN _CYCLE_CHECK_MAP :
       EngineInit(Some(strategy_name), Some(cc_name))

(* The caller builds the initial state (identity InitHash, path cost 0, no parent) *)
(* and calls init_search(init_state, goal_fn, heur_fn, fval_fn).  The objects of   *)
(* an earlier run are unreachable from then on: the arena and the histories of    *)
(* the run start afresh.  The dictionary and the pruning counters are the         *)
(* engine's and are left as they are.  When heur_fn(init_state) raises, the       *)
(* statistics are reset and the frontier is new and empty, and nothing after the  *)
(* call is done.                                                                  *)
InitSearch(goal, heur, fval_fn) ==
  /\ pc \in {"new", "ready", "done"}
  /\ LET init_state == NewStateSpace(InitHash, 0, 0, StateSpace_n)
         sts == <<init_state>>
         s == Len(sts)
         lt == LtTypeAfterInit(strategy, lt_type)
         nd == NewSearchNode(sts, s, heur[init_state.hash], fval_fn, 0)
     IN  /\ states' = sts
         /\ StateSpace_n' = 1
         /\ lt_type' = lt
         /\ IF Raises(faults.heur, init_state.hash)
              THEN /\ SearchNode_n' = 0
                   /\ open_nodes' = Some(OpenNodeCollection(strategy))
                   /\ h_log' = <<>>
                   /\ raised' = Some("Exception")
                   /\ pc' = "raised"
                   /\ UNCHANGED <<path_to_gval, fval_function, goal_fn, heur_fn>>
              ELSE /\ SearchNode_n' = 1
                   /\ open_nodes' = Some(Insert(OpenNodeCollection(strategy), nd, lt))
                   /\ path_to_gval' = IF cc = _CC_FULL
                                        THEN DictSet(path_to_gval, init_state.hash,
                                                     init_state.gval)
                                        ELSE path_to_gval
                   /\ h_log' = IF cc = _CC_FULL
                                 THEN <<Event("record", init_state.hash, init_state.gval)>>
                                 ELSE <<>>
                   /\ fval_function' = Some(fval_fn)
                   /\ goal_fn' = Some(goal)
                   /\ heur_fn' = Some(heur)
                   /\ raised' = raised
                   /\ pc' = "ready"
  /\ runs' = runs + 1
  /\ h_before' = <<>>
  /\ h_last' = None
  /\ h_inv' = NoInvocation
  /\ UNCHANGED <<strategy, cc, n_cc_pruned, n_cost_pruned, search_start_time,
                 search_stop_time, graph, clock, node, successors, si, costbound, ret>>
  /\ UNCHANGED session

(* A deadline set for every timebound that is not None, 0 included. *)
SearchStopTimeOfAnyBound(start, timebound) ==
  IF timebound # None THEN Some(start + Val(timebound)) ELSE None

(* search(): the deadline.  `if timebound:` is false of None and of 0. *)
SearchStopTime(start, timebound) ==
  IF timebound # None /\ Val(timebound) # 0 THEN Some(start + Val(timebound)) ELSE None

(* search(timebound, costbound), up to the first test of _searchOpen's while loop. *)
(* On an engine whose init_search was never called open_nodes is None and          *)
(* self.open_nodes.is_empty() raises.  A call made after an earlier search()       *)
(* returned goes on from the frontier and the dictionary as they are.              *)
Search(timebound, cb) ==
  /\ pc \in {"new", "ready", "done"}
  /\ search_start_time' = Some(clock)
  /\ search_stop_time' = SearchStopTime(clock, timebound)
  /\ costbound' = cb
  /\ ret' = None
  /\ node' = None
  /\ successors' = <<>>
  /\ si' = 0
  /\ h_inv' = [NoInvocation EXCEPT !.timebound = timebound,
                                   !.resumed = (pc = "done"),
                                   !.returned = h_inv.returned,
                                   !.expanded_nodes = h_inv.expanded_nodes,
                                   !.timed_out = h_inv.timed_out]
  /\ IF open_nodes = None
       THEN raised' = Some("AttributeError") /\ pc' = "raised"
       ELSE raised' = raised /\ pc' = "loop"
  /\ UNCHANGED <<strategy, cc, n_cc_pruned, n_cost_pruned, open_nodes, path_to_gval,
                 goal_fn, heur_fn, fval_function, SearchNode_n, StateSpace_n, lt_type,
                 states, graph, clock, runs, h_before, h_log, h_last>>
  /\ UNCHANGED session

(* search() returning: _searchOpen gave r (a node or False). *)
Return(r) ==
  /\ ret' = Some(SearchResult(r, SearchNode_n, StateSpace_n, n_cc_pruned, n_cost_pruned,
                              clock - Val(search_start_time)))
  /\ pc' = "done"

(* A deadline test that never fires. *)
PastDeadlineNever == FALSE

(* The deadline test of _searchOpen. *)
PastDeadline ==
  search_stop_time # None /\ Val(search_stop_time) # 0 /\ clock > Val(search_stop_time)

(* The clock reads more than the start of the current search() plus its timebound. *)
ClockPastBound ==
  /\ h_inv.timebound # None
  /\ Val(h_inv.timebound) # 0
  /\ clock > Val(search_start_time) + Val(h_inv.timebound)

(* The deadline test made before the goal test. *)
VerdictDeadlineFirst(goal_raises, isgoal, past, stale, succ_raises) ==
  IF past THEN "timeout"
  ELSE IF goal_raises THEN "raised"
  ELSE IF isgoal THEN "goal"
  ELSE IF stale THEN "skip"
  ELSE IF succ_raises THEN "raised"
  ELSE "expand"

(* What _searchOpen does with the node it has extracted: the goal test, the *)
(* deadline test, the staleness test and successors(), in that order.       *)
Verdict(goal_raises, isgoal, past, stale, succ_raises) ==
  IF goal_raises THEN "raised"
  ELSE IF isgoal THEN "goal"
  ELSE IF past THEN "timeout"
  ELSE IF stale THEN "skip"
  ELSE IF succ_raises THEN "raised"
  ELSE "expand"

(* One turn of _searchOpen's while loop, up to the for loop over the successors: *)
(* emptiness test, extract, goal test, deadline test, staleness test, successors(). *)
SearchOpen ==
  /\ pc = "loop"
  /\ IF IsEmpty(Val(open_nodes))
       THEN /\ Return(False)
            /\ h_inv' = [h_inv EXCEPT !.outcome = Some("exhausted")]
            /\ UNCHANGED <<open_nodes, node, successors, si, states, StateSpace_n,
                           h_before, h_log, raised>>
       ELSE LET ex == Extract(Val(open_nodes), lt_type)
                nd == ex[1]
                hash == states[nd.state].hash
                succ == Successors(graph, states, nd.state, StateSpace_n)
                goal_raises == Raises(faults.goal, hash)
                isgoal == hash \in Val(goal_fn)
                verdict == Verdict(goal_raises, isgoal, PastDeadline,
                                   IsStale(cc, path_to_gval, states, nd),
                                   Raises(faults.succ, hash))
                seen == [h_inv EXCEPT !.extracted = @ + 1,
                                      !.deadline_tests =
                                        IF goal_raises \/ isgoal \/ search_stop_time = None
                                           \/ Val(search_stop_time) = 0
                                          THEN @ ELSE @ + 1,
                                      !.late = @ \/ ClockPastBound]
            IN  /\ open_nodes' = Some(ex[2])
                /\ node' = Some(nd)
                /\ h_before' = Val(open_nodes).open
                /\ CASE verdict = "goal" ->
                          /\ Return(Some(nd))
                          /\ h_inv' = [seen EXCEPT !.outcome = Some("goal"),
                                                   !.returned = Append(@, nd.index)]
                          /\ UNCHANGED <<successors, si, states, StateSpace_n, h_log,
                                         raised>>
                     [] verdict = "timeout" ->
                          /\ Return(False)
                          /\ h_inv' = [seen EXCEPT !.outcome = Some("timeout"),
                                                   !.timed_out = @ \cup {nd.index}]
                          /\ UNCHANGED <<successors, si, states, StateSpace_n, h_log,
                                         raised>>
                     [] verdict = "raised" ->
                          /\ raised' = Some("Exception")
                          /\ pc' = "raised"
                          /\ h_inv' = [seen EXCEPT !.outcome = Some("raised")]
                          /\ UNCHANGED <<successors, si, states, StateSpace_n, h_log,
                                         ret>>
                     [] verdict = "skip" ->
                          /\ h_inv' = seen
                          /\ UNCHANGED <<successors, si, states, StateSpace_n, h_log,
                                         pc, ret, raised>>
                     [] verdict = "expand" ->
                          /\ StateSpace_n + Len(succ) <= MaxStates
                          /\ h_inv' = [seen EXCEPT !.expanded = @ + 1,
                                                   !.expanded_nodes = @ \cup {nd.index}]
                          /\ states' = states \o succ
                          /\ StateSpace_n' = StateSpace_n + Len(succ)
                          /\ successors' = [k \in 1..Len(succ) |-> Len(states) + k]
                          /\ si' = 1
                          /\ h_log' = Append(h_log, Event("expand", hash, nd.gval))
                          /\ pc' = IF succ = <<>> THEN "loop" ELSE "for"
                          /\ UNCHANGED <<ret, raised>>
  /\ h_last' = None
  /\ UNCHANGED <<strategy, cc, n_cc_pruned, n_cost_pruned, path_to_gval, goal_fn, heur_fn,
                 fval_function, search_start_time, search_stop_time, SearchNode_n,
                 lt_type, graph, clock, costbound, runs>>
  /\ UNCHANGED session

(* One turn of the for loop over `successors`: the cycle test, heur_fn(succ), the *)
(* cost-bound test, then the insertion and the dictionary entry.                  *)
ForSuccessor ==
  /\ pc = "for"
  /\ LET s == successors[si]
         succ == states[s]
         succ_hval == Val(heur_fn)[succ.hash]
         seen == [pos |-> s, hash |-> succ.hash, gval |-> succ.gval, hval |-> succ_hval,
                  entry |-> IF succ.hash \in DOMAIN path_to_gval
                              THEN Some(path_to_gval[succ.hash]) ELSE None,
                  n_cc_pruned |-> n_cc_pruned, n_cost_pruned |-> n_cost_pruned,
                  open |-> Val(open_nodes).open]
     IN  IF IsPrunable(cc, path_to_gval, states, s)
           THEN /\ n_cc_pruned' = n_cc_pruned + 1
                /\ h_inv' = [h_inv EXCEPT !.cc_pruned = @ + 1]
                /\ h_last' = Some(seen @@ [outcome |-> "cycle"])
                /\ si' = si + 1
                /\ pc' = IF si = Len(successors) THEN "loop" ELSE "for"
                /\ UNCHANGED <<n_cost_pruned, open_nodes, SearchNode_n, path_to_gval, h_log,
                               raised>>
         ELSE IF Raises(faults.heur, succ.hash)
           THEN /\ raised' = Some("Exception")
                /\ pc' = "raised"
                /\ h_inv' = [h_inv EXCEPT !.outcome = Some("raised")]
                /\ h_last' = Some(seen @@ [outcome |-> "raised"])
                /\ UNCHANGED <<n_cc_pruned, n_cost_pruned, open_nodes, SearchNode_n,
                               path_to_gval, h_log, si>>
         ELSE IF OverCostBound(costbound, succ.gval, succ_hval)
           THEN /\ n_cost_pruned' = n_cost_pruned + 1
                /\ h_inv' = [h_inv EXCEPT !.cost_pruned = @ + 1]
                /\ h_last' = Some(seen @@ [outcome |-> "cost"])
                /\ si' = si + 1
                /\ pc' = IF si = Len(successors) THEN "loop" ELSE "for"
                /\ UNCHANGED <<n_cc_pruned, open_nodes, SearchNode_n, path_to_gval, h_log,
                               raised>>
         ELSE /\ open_nodes' = Some(Insert(Val(open_nodes),
                                           NewSearchNode(states, s, succ_hval,
                                                         Val(node).fval_function,
                                                         SearchNode_n),
                                           lt_type))
              /\ SearchNode_n' = SearchNode_n + 1
              /\ path_to_gval' = IF cc = _CC_FULL
                                   THEN DictSet(path_to_gval, succ.hash, succ.gval)
                                   ELSE path_to_gval
              /\ h_log' = IF cc = _CC_FULL
                            THEN Append(h_log, Event("record", succ.hash, succ.gval))
                            ELSE h_log
              /\ h_last' = Some(seen @@ [outcome |-> "inserted"])
              /\ h_inv' = [h_inv EXCEPT !.inserted = @ + 1]
              /\ si' = si + 1
              /\ pc' = IF si = Len(successors) THEN "loop" ELSE "for"
              /\ UNCHANGED <<n_cc_pruned, n_cost_pruned, raised>>
  /\ UNCHANGED <<strategy, cc, goal_fn, heur_fn, fval_function, search_start_time,
                 search_stop_time, StateSpace_n, lt_type, states, graph, clock, node,
                 successors, costbound, ret, h_before, runs>>
  /\ UNCHANGED session

(* The scoring functions a caller passes: one of its own for the custom strategy, *)
(* the default otherwise.                                                         *)
CallerFvalFns == IF strategy = _CUSTOM THEN FvalFns ELSE {_fval_function}

Next ==
  \/ \E goal \in GoalFns(graph), heur \in HeurFns(graph), fval_fn \in CallerFvalFns :
       pc = "new" /\ InitSearch(goal, heur, fval_fn)
  \/ pc = "ready" /\ \E cb \in CostBounds : Search(None, cb)
  \/ SearchOpen
  \/ ForSuccessor

Spec == Init /\ [][Next]_vars

(* ---------------- searching against the clock ---------------- *)

(* _zero_hfn, for the problem g. *)
_zero_hfn(g) == [i \in Ids(g) |-> 0]

(* The timebound arguments a caller passes to search(). *)
TimeBounds == {None, Some(0), Some(1)}

(* os.times()[0] advances between any two steps of the program. *)
Tick ==
  /\ clock < MaxClock
  /\ clock' = clock + 1
  /\ UNCHANGED <<strategy, cc, n_cc_pruned, n_cost_pruned, open_nodes, path_to_gval,
                 goal_fn, heur_fn, fval_function, search_start_time, search_stop_time,
                 SearchNode_n, StateSpace_n, lt_type, states, graph, pc, node,
                 successors, si, costbound, ret, h_before, h_log, h_last, h_inv, runs>>
  /\ UNCHANGED <<session, raised>>

(* One search per engine, with the default heuristic and scoring function, any *)
(* timebound and no cost bound, while the clock advances.                      *)
NextTimed ==
  \/ \E goal \in GoalFns(graph) :
       pc = "new" /\ InitSearch(goal, _zero_hfn(graph), _fval_function)
  \/ pc = "ready" /\ \E timebound \in TimeBounds : Search(timebound, None)
  \/ SearchOpen
  \/ ForSuccessor
  \/ Tick

SpecTimed == Init /\ [][NextTimed]_vars

(* ---------------- an engine used for several searches ---------------- *)

(* The caller runs a search to its end, then calls init_search on the same      *)
(* engine for the next one (the same problem, any goal, the default heuristic). *)
NextReuse ==
  \/ \E goal \in GoalFns(graph) :
       /\ runs < MaxRuns
       /\ pc \in {"new", "done"}
       /\ InitSearch(goal, _zero_hfn(graph), _fval_function)
  \/ pc = "ready" /\ \E cb \in CostBounds : Search(None, cb)
  \/ SearchOpen
  \/ ForSuccessor

SpecReuse == Init /\ [][NextReuse]_vars

(* ---------------- two engines ---------------- *)

(* A second caller constructs an engine of strategy strategy2, builds an initial *)
(* state and calls init_search on it, between the first engine's init_search and *)
(* the end of its search().  Of the second engine only what it does to the class *)
(* variables is followed: init_statistics, OpenNodeCollection.__init__ and the   *)
(* creation of its initial node.                                                 *)
OtherInitSearch(strategy2) ==
  /\ engine2 = None
  /\ pc \in {"ready", "loop", "for"}
  /\ engine2' = Some(strategy2)
  /\ StateSpace_n' = 1
  /\ SearchNode_n' = 1
  /\ lt_type' = LtTypeAfterInit(strategy2, lt_type)
  /\ UNCHANGED <<strategy, cc, n_cc_pruned, n_cost_pruned, open_nodes, path_to_gval,
                 goal_fn, heur_fn, fval_function, search_start_time, search_stop_time,
                 states, graph, clock, pc, node, successors, si, costbound, ret,
                 h_before, h_log, h_last, h_inv, h_ctor, h_call, raised, runs, faults,
                 h_iters>>

(* One search on the first engine, with any heuristic and no bound, and one *)
(* init_search on a second engine of a priority strategy.                   *)
NextTwoEngines ==
  \/ \E goal \in GoalFns(graph), heur \in HeurFns(graph), fval_fn \in CallerFvalFns :
       pc = "new" /\ InitSearch(goal, heur, fval_fn)
  \/ pc = "ready" /\ Search(None, None)
  \/ SearchOpen
  \/ ForSuccessor
  \/ \E strategy2 \in {_UCS, _BEST_FIRST, _ASTAR, _CUSTOM} : OtherInitSearch(strategy2)

SpecTwoEngines == Init /\ [][NextTwoEngines]_vars

(* ---------------- configuring the engine ---------------- *)

(* The identifiers a caller passes to set_strategy and set_cycle_check: the names *)
(* of both enumerations and one that is in neither.                               *)
Identifiers == DOMAIN _SEARCH_STRATEGY_MAP \cup DOMAIN _CYCLE_CHECK_MAP \cup {"dijkstra"}

(* A set_strategy that falls back to breadth-first on an unknown identifier. *)
StrategyAfterFallback(name, current) ==
  IF name \in DOMAIN _SEARCH_STRATEGY_MAP THEN _SEARCH_STRATEGY_MAP[name] ELSE _BREADTH_FIRST

(* self.strategy after set_strategy(name): the raise leaves it as it was. *)
StrategyAfter(name, current) ==
  IF name \in DOMAIN _SEARCH_STRATEGY_MAP THEN _SEARCH_STRATEGY_MAP[name] ELSE current

(* self.cc after set_cycle_check(name): the raise leaves it as it was. *)
CcAfter(name, strat, current) ==
  IF name \in DOMAIN _CYCLE_CHECK_MAP THEN ResolveCc(name, strat) ELSE current

(* The record of a configuration call: its argument, the engine's strategy and  *)
(* cycle-check mode before it, and what the call before it raised.              *)
Call(op, name) ==
  [op |-> op, arg |-> name, strategy |-> strategy, cc |-> cc, prev_raised |-> raised]

(* A set_strategy that resolves the default cycle-check mode again for the new *)
(* strategy.                                                                   *)
SetStrategyResolvingCc(name) ==
  /\ pc \in {"new", "ready", "done"}
  /\ strategy' = StrategyAfter(name, strategy)
  /\ cc' = IF name \in DOMAIN _SEARCH_STRATEGY_MAP /\ h_ctor.cc \in {None, Some("default")}
            THEN ResolveCc("default", _SEARCH_STRATEGY_MAP[name]) ELSE cc
  /\ raised' = IF name \in DOMAIN _SEARCH_STRATEGY_MAP THEN None ELSE Some("ValueError")
  /\ h_call' = Some(Call("set_strategy", name))
  /\ UNCHANGED <<n_cc_pruned, n_cost_pruned, open_nodes, path_to_gval, goal_fn,
                 heur_fn, fval_function, search_start_time, search_stop_time,
                 SearchNode_n, StateSpace_n, lt_type, states, graph, clock, pc, node,
                 successors, si, costbound, ret, h_before, h_log, h_last, h_inv, h_ctor,
                 runs, engine2, faults, h_iters>>

(* set_strategy(name), called while the caller has control. *)
SetStrategy(name) ==
  /\ pc \in {"new", "ready", "done"}
  /\ strategy' = StrategyAfter(name, strategy)
  /\ raised' = IF name \in DOMAIN _SEARCH_STRATEGY_MAP THEN None ELSE Some("ValueError")
  /\ h_call' = Some(Call("set_strategy", name))
  /\ UNCHANGED <<cc, n_cc_pruned, n_cost_pruned, open_nodes, path_to_gval, goal_fn,
                 heur_fn, fval_function, search_start_time, search_stop_time,
                 SearchNode_n, StateSpace_n, lt_type, states, graph, clock, pc, node,
                 successors, si, costbound, ret, h_before, h_log, h_last, h_inv, h_ctor,
                 runs, engine2, faults, h_iters>>

(* set_cycle_check(name), called while the caller has control. *)
SetCycleCheck(name) ==
  /\ pc \in {"new", "ready", "done"}
  /\ cc' = CcAfter(name, strategy, cc)
  /\ raised' = IF name \in DOMAIN _CYCLE_CHECK_MAP THEN None ELSE Some("ValueError")
  /\ h_call' = Some(Call("set_cycle_check", name))
  /\ UNCHANGED <<strategy, n_cc_pruned, n_cost_pruned, open_nodes, path_to_gval, goal_fn,
                 heur_fn, fval_function, search_start_time, search_stop_time,
                 SearchNode_n, StateSpace_n, lt_type, states, graph, clock, pc, node,
                 successors, si, costbound, ret, h_before, h_log, h_last, h_inv, h_ctor,
                 runs, engine2, faults, h_iters>>

(* An engine constructed with or without each argument, then reconfigured. *)
InitConfig ==
  /\ graph \in {Diamond}
  /\ pc = "new"
  /\ faults = NoFaults
  /\ \E strategy_arg \in {None} \cup {Some(n) : n \in DOMAIN _SEARCH_STRATEGY_MAP},
        cc_arg \in {None} \cup {Some(n) : n \in DOMAIN _CYCLE_CHECK_MAP} :
       EngineInit(strategy_arg, cc_arg)

NextConfig ==
  \/ \E name \in Identifiers : SetStrategy(name)
  \/ \E name \in Identifiers : SetCycleCheck(name)

SpecConfig == InitConfig /\ [][NextConfig]_vars

(* ---------------- a frontier on its own ---------------- *)

(* An OpenNodeCollection built for any strategy and driven by a caller that  *)
(* inserts freshly built nodes and extracts, in any order.                   *)
InitFrontier ==
  /\ graph \in {Diamond}
  /\ pc = "frontier"
  /\ faults = NoFaults
  /\ \E strategy_name \in DOMAIN _SEARCH_STRATEGY_MAP :
       /\ strategy = _SEARCH_STRATEGY_MAP[strategy_name]
       /\ cc = ResolveCc("default", strategy)
       /\ lt_type = LtTypeAfterInit(strategy, _SUM_HG)
       /\ open_nodes = Some(OpenNodeCollection(strategy))
       /\ fval_function \in {Some(f) : f \in IF strategy = _CUSTOM THEN FvalFns
                                                              ELSE {_fval_function}}
  /\ n_cc_pruned = 0
  /\ n_cost_pruned = 0
  /\ path_to_gval = <<>>
  /\ goal_fn = None
  /\ heur_fn = None
  /\ search_start_time = Some(-1)
  /\ search_stop_time = Some(-1)
  /\ SearchNode_n = 0
  /\ StateSpace_n = 0
  /\ states = <<>>
  /\ clock = 0
  /\ node = None
  /\ successors = <<>>
  /\ si = 0
  /\ costbound = None
  /\ ret = None
  /\ h_before = <<>>
  /\ h_log = <<>>
  /\ h_last = None
  /\ h_inv = NoInvocation
  /\ h_ctor = [strategy |-> None, cc |-> None]
  /\ h_call = None
  /\ raised = None
  /\ runs = 0
  /\ engine2 = None
  /\ h_iters = <<>>

(* The caller builds a state of path cost gval, wraps it in a SearchNode with *)
(* heuristic value hval, and inserts the node.                                *)
FrontierInsert(gval, hval) ==
  /\ pc \in {"frontier", "extracted"}
  /\ SearchNode_n < MaxInserts
  /\ LET sts == Append(states, NewStateSpace(InitHash, gval, 0, StateSpace_n))
     IN  /\ states' = sts
         /\ open_nodes' = Some(Insert(Val(open_nodes),
                                      NewSearchNode(sts, Len(sts), hval,
                                                    Val(fval_function), SearchNode_n),
                                      lt_type))
  /\ StateSpace_n' = StateSpace_n + 1
  /\ SearchNode_n' = SearchNode_n + 1
  /\ pc' = "frontier"
  /\ UNCHANGED <<strategy, cc, n_cc_pruned, n_cost_pruned, path_to_gval, goal_fn, heur_fn,
                 fval_function, search_start_time, search_stop_time, lt_type, graph,
                 clock, node, successors, si, costbound, ret, h_before, h_log,
                 h_last, h_inv, runs>>
  /\ UNCHANGED <<session, raised>>

(* An extract() that raises nothing and returns None on an empty collection. *)
ExtractRaisesNever(coll) == None

(* What extract() raises: list.pop, deque.popleft and heapq.heappop raise *)
(* IndexError on an empty container.                                      *)
ExtractRaises(coll) == IF IsEmpty(coll) THEN Some("IndexError") ELSE None

(* The caller calls extract(), on a frontier that holds nodes or on an empty one. *)
FrontierExtract ==
  /\ pc \in {"frontier", "extracted"}
  /\ raised' = ExtractRaises(Val(open_nodes))
  /\ IF IsEmpty(Val(open_nodes))
       THEN /\ pc' = IF ExtractRaises(Val(open_nodes)) # None THEN "raised" ELSE "extracted"
            /\ node' = None
            /\ open_nodes' = open_nodes
       ELSE /\ pc' = "extracted"
            /\ node' = Some(Extract(Val(open_nodes), lt_type)[1])
            /\ open_nodes' = Some(Extract(Val(open_nodes), lt_type)[2])
  /\ h_before' = Val(open_nodes).open
  /\ h_call' = Some(Call("extract", ""))
  /\ UNCHANGED <<strategy, cc, n_cc_pruned, n_cost_pruned, path_to_gval, goal_fn, heur_fn,
                 fval_function, search_start_time, search_stop_time, SearchNode_n,
                 StateSpace_n, lt_type, states, graph, clock, successors, si, costbound,
                 ret, h_log, h_last, h_inv, runs, h_ctor, engine2, faults, h_iters>>

NextFrontier ==
  \/ \E gval \in 0..MaxKey, hval \in 0..MaxKey :
       gval + hval <= MaxKey /\ FrontierInsert(gval, hval)
  \/ FrontierExtract

SpecFrontier == InitFrontier /\ [][NextFrontier]_vars

(* ---------------- a caller whose functions raise ---------------- *)

(* The callers of a problem g: the one whose functions never raise, and those *)
(* with one function that raises on one identity.                             *)
FaultSets(g) ==
  {NoFaults} \cup {[NoFaults EXCEPT ![k] = {id}] : k \in {"goal", "heur", "succ"},
                                                   id \in Ids(g)}

InitFaulty ==
  /\ graph \in Graphs
  /\ pc = "new"
  /\ faults \in FaultSets(graph)
  /\ \E strategy_name \in DOMAIN _SEARCH_STRATEGY_MAP, cc_name \in DOMAIN _CYCLE_CHECK_MAP :
       EngineInit(Some(strategy_name), Some(cc_name))

(* One search per engine, with a heuristic of 0 and the default scoring function. *)
NextFaulty ==
  \/ \E goal \in GoalFns(graph) :
       pc = "new" /\ InitSearch(goal, _zero_hfn(graph), _fval_function)
  \/ pc = "ready" /\ Search(None, None)
  \/ SearchOpen
  \/ ForSuccessor

SpecFaulty == InitFaulty /\ [][NextFaulty]_vars

(* ---------------- solution.py ---------------- *)

(* The weights a caller passes, in hundredths: 0.01, 0.5, 1, 2 and 10. *)
Weights == {1, 50, 100, 200, 1000}

(* The nodes a caller passes to fval_function: tests.py builds one with g = 6 *)
(* and h = 10.                                                                *)
FvalNodes == {[gval |-> g, hval |-> h] : g \in {0, 6}, h \in {0, 10}}

(* The timebounds a caller passes to the search functions. *)
SolutionTimeBounds == {Some(k) : k \in 1..MaxClock}

(* A body that is `raise NotImplementedError(...)`: the call op(arg) raises, no *)
(* engine is built, nothing is searched and nothing is returned.  tests.py      *)
(* catches the exception and goes on to its next call.                          *)
NotImplemented(op, arg) ==
  /\ pc \in {"new", "raised"}
  /\ h_call' = Some(Call(op, arg))
  /\ raised' = Some("NotImplementedError")
  /\ pc' = "raised"
  /\ UNCHANGED <<strategy, cc, n_cc_pruned, n_cost_pruned, open_nodes, path_to_gval,
                 goal_fn, heur_fn, fval_function, search_start_time, search_stop_time,
                 SearchNode_n, StateSpace_n, lt_type, states, graph, clock, node,
                 successors, si, costbound, ret, h_before, h_log, h_last, h_inv, h_ctor,
                 runs, engine2, faults, h_iters>>

(* solution.fval_function(node, weight). *)
solution_fval_function(nd, weight) ==
  NotImplemented("fval_function", [node |-> nd, weight |-> weight])

(* weighted_astar(initial_state, heur_fn, weight, timebound). *)
weighted_astar(weight, timebound) ==
  NotImplemented("weighted_astar", [weight |-> weight, timebound |-> timebound])

(* iterative_astar(initial_state, heur_fn, weight, timebound). *)
iterative_astar(weight, timebound) ==
  NotImplemented("iterative_astar", [weight |-> weight, timebound |-> timebound])

(* iterative_gbfs(initial_state, heur_fn, timebound). *)
iterative_gbfs(timebound) ==
  NotImplemented("iterative_gbfs", [timebound |-> timebound])

(* A problem and a caller of solution.py that has built no engine of its own. *)
InitSolution ==
  /\ graph \in Graphs
  /\ pc = "new"
  /\ faults = NoFaults
  /\ EngineInit(None, None)

NextSolution ==
  \/ \E nd \in FvalNodes, weight \in Weights : solution_fval_function(nd, weight)
  \/ \E weight \in Weights, timebound \in SolutionTimeBounds :
       weighted_astar(weight, timebound)
  \/ \E weight \in Weights, timebound \in SolutionTimeBounds :
       iterative_astar(weight, timebound)
  \/ \E timebound \in SolutionTimeBounds : iterative_gbfs(timebound)

SpecSolution == InitSolution /\ [][NextSolution]_vars

(* ---------------- sokoban_direction.py, sokoban_state.py ---------------- *)

(* _SokobanDirection.__init__ and the four directions. *)
_SokobanDirection(name, dx, dy) == [name |-> name, dx |-> dx, dy |-> dy]
UP == _SokobanDirection("UP", 0, -1)
DOWN == _SokobanDirection("DOWN", 0, 1)
LEFT == _SokobanDirection("LEFT", -1, 0)
RIGHT == _SokobanDirection("RIGHT", 1, 0)

(* _SokobanDirection.move(pos) *)
Move(direction, pos) == <<pos[1] + direction.dx, pos[2] + direction.dy>>

(* SokobanState.__init__; robots is a tuple of cells <<x, y>>, the other three *)
(* are sets of cells.                                                         *)
SokobanState(action, gval, parent, width, height, robots, boxes, storage, obstacles) ==
  [action |-> action, gval |-> gval, parent |-> parent, width |-> width,
   height |-> height, robots |-> robots, boxes |-> boxes, storage |-> storage,
   obstacles |-> obstacles]

(* SokobanState._in_bounds *)
_in_bounds(self, loc) ==
  0 <= loc[1] /\ loc[1] < self.width /\ 0 <= loc[2] /\ loc[2] < self.height

(* A robot that walks onto the cell of a box and leaves the box where it is. *)
StepWithoutPush(self, robot_idx, direction) ==
  LET new_pos == Move(direction, self.robots[robot_idx])
  IN  IF ~_in_bounds(self, new_pos) \/ new_pos \in self.obstacles
        THEN None
        ELSE Some(SokobanState([robot |-> robot_idx - 1, direction |-> direction.name],
                               self.gval + 1, Some(self), self.width, self.height,
                               [self.robots EXCEPT ![robot_idx] = new_pos],
                               self.boxes, self.storage, self.obstacles))

(* A push that does not look for a box on the cell the pushed box moves to. *)
StepPushingOntoBoxes(self, robot_idx, direction) ==
  LET new_pos == Move(direction, self.robots[robot_idx])
      box_dest == Move(direction, new_pos)
  IN  IF ~_in_bounds(self, new_pos) \/ new_pos \in self.obstacles
        THEN None
      ELSE IF /\ new_pos \in self.boxes
              /\ \/ ~_in_bounds(self, box_dest)
                 \/ box_dest \in self.obstacles
        THEN None
      ELSE Some(SokobanState([robot |-> robot_idx - 1, direction |-> direction.name],
                             self.gval + 1, Some(self), self.width, self.height,
                             [self.robots EXCEPT ![robot_idx] = new_pos],
                             IF new_pos \in self.boxes
                               THEN (self.boxes \ {new_pos}) \cup {box_dest}
                               ELSE self.boxes,
                             self.storage, self.obstacles))

(* One turn of the inner loop of successors(): the state robot robot_idx (1 is *)
(* the first robot) reaches by one step in `direction`, or None when the turn  *)
(* ends in `continue`.                                                         *)
Step(self, robot_idx, direction) ==
  LET new_pos == Move(direction, self.robots[robot_idx])
      box_dest == Move(direction, new_pos)
  IN  IF ~_in_bounds(self, new_pos) \/ new_pos \in self.obstacles
        THEN None
      ELSE IF /\ new_pos \in self.boxes
              /\ \/ ~_in_bounds(self, box_dest)
                 \/ box_dest \in self.obstacles
                 \/ box_dest \in self.boxes
        THEN None
      ELSE Some(SokobanState([robot |-> robot_idx - 1, direction |-> direction.name],
                             self.gval + 1, Some(self), self.width, self.height,
                             [self.robots EXCEPT ![robot_idx] = new_pos],
                             IF new_pos \in self.boxes
                               THEN (self.boxes \ {new_pos}) \cup {box_dest}
                               ELSE self.boxes,
                             self.storage, self.obstacles))

(* SokobanState.successors: robots in order, and for each UP, RIGHT, DOWN, LEFT. *)
SokobanSuccessors(self) ==
  LET directions == <<UP, RIGHT, DOWN, LEFT>>
      turns == [k \in 1..(4 * Len(self.robots)) |->
                  Step(self, ((k - 1) \div 4) + 1, directions[((k - 1) % 4) + 1])]
      kept == SelectSeq(turns, LAMBDA turn : turn # None)
  IN  [k \in 1..Len(kept) |-> Val(kept[k])]

(* sokoban_goal_state *)
sokoban_goal_state(state) == \A box \in state.boxes : box \in state.storage

(* ---------------- solution.py: heur_manhattan_distance ---------------- *)

Abs(x) == IF x < 0 THEN -x ELSE x
SetMin(S) == CHOOSE x \in S : \A y \in S : x <= y
RECURSIVE SetSum(_)
SetSum(S) == IF S = {} THEN 0 ELSE LET x == CHOOSE y \in S : TRUE IN x[2] + SetSum(S \ {x})

(* The sum, over the boxes not on a storage cell, of the Manhattan distance to *)
(* the nearest storage cell.                                                   *)
heur_manhattan_distance(state) ==
  SetSum({<<b, SetMin({Abs(b[1] - s[1]) + Abs(b[2] - s[2]) : s \in state.storage})>> :
            b \in state.boxes \ state.storage})

(* ---------------- Sokoban problems as problems of the engine ---------------- *)

(* A room with one robot, a box on the next cell in `direction` and the only *)
(* storage cell one further: the initial state, with gval 0.                 *)
OnePush(width, height, robot, direction) ==
  SokobanState("START", 0, None, width, height, <<robot>>,
               {Move(direction, robot)}, {Move(direction, Move(direction, robot))}, {})

SokobanProblems ==
  {OnePush(3, 1, <<0, 0>>, RIGHT), OnePush(3, 2, <<0, 0>>, RIGHT),
   OnePush(3, 2, <<2, 1>>, LEFT), OnePush(3, 3, <<0, 1>>, RIGHT),
   OnePush(1, 3, <<0, 2>>, UP), OnePush(2, 3, <<0, 0>>, DOWN),
   OnePush(2, 3, <<1, 2>>, UP), OnePush(3, 3, <<1, 0>>, DOWN)}

(* hashable_state() is hash((robots, boxes)): a number that identifies the    *)
(* cells of the robot and the box.  Identities are numbered from that of the  *)
(* initial state `init`, which is InitHash.                                   *)
Cells(init) == init.width * init.height
CellNumber(init, loc) == loc[2] * init.width + loc[1]
Placement(init, state) ==
  CellNumber(init, state.robots[1]) * Cells(init)
  + CellNumber(init, CHOOSE b \in state.boxes : TRUE)
hashable_state(init, state) ==
  InitHash + ((Placement(init, state) - Placement(init, init)) % (Cells(init) * Cells(init)))

(* The state of identity hash, as the caller first builds it. *)
StateOf(init, hash) ==
  LET placement == (hash - InitHash + Placement(init, init)) % (Cells(init) * Cells(init))
      robot == placement \div Cells(init)
      box == placement % Cells(init)
  IN  SokobanState("START", 0, None, init.width, init.height,
                   <<(<<robot % init.width, robot \div init.width>>)>>,
                   {<<box % init.width, box \div init.width>>},
                   init.storage, init.obstacles)

(* The problem the engine searches from `init`: the successors of every identity, *)
(* each one step (cost 1) away.                                                   *)
SokobanGraph(init) ==
  [hash \in 1..(Cells(init) * Cells(init)) |->
     LET succ == SokobanSuccessors(StateOf(init, hash))
     IN  [k \in 1..Len(succ) |-> <<hashable_state(init, succ[k]), 1>>]]

(* sokoban_goal_state and the heuristics, as functions of the identity. *)
SokobanGoals(init) == {hash \in Ids(SokobanGraph(init)) : sokoban_goal_state(StateOf(init, hash))}
SokobanHeurFns(init) ==
  {_zero_hfn(SokobanGraph(init)),
   [hash \in Ids(SokobanGraph(init)) |-> heur_manhattan_distance(StateOf(init, hash))]}

(* Uniform-cost search or A* with full cycle checking on a one-push problem. *)
InitSokoban ==
  /\ graph \in {SokobanGraph(init) : init \in SokobanProblems}
  /\ pc = "new"
  /\ faults = NoFaults
  /\ \E strategy_name \in {"ucs", "astar"} : EngineInit(Some(strategy_name), Some("full"))

NextSokoban ==
  \/ \E init \in SokobanProblems : \E heur \in SokobanHeurFns(init) :
       /\ pc = "new"
       /\ graph = SokobanGraph(init)
       /\ InitSearch(SokobanGoals(init), heur, _fval_function)
  \/ pc = "ready" /\ Search(None, None)
  \/ SearchOpen
  \/ ForSuccessor

SpecSokoban == InitSokoban /\ [][NextSokoban]_vars

(* ---------------- search() called again ---------------- *)

(* One init_search, with a heuristic of 0 and the default scoring function, then *)
(* search() as often as the caller likes: the first call and every call made     *)
(* after an earlier one returned.                                                *)
NextResume ==
  \/ \E goal \in GoalFns(graph) :
       pc = "new" /\ InitSearch(goal, _zero_hfn(graph), _fval_function)
  \/ pc \in {"ready", "done"} /\ Search(None, None)
  \/ SearchOpen
  \/ ForSuccessor

SpecResume == Init /\ [][NextResume]_vars

(* ---------------- calls made out of order ---------------- *)

(* A frontier driven as above, or an engine on which search() is called with *)
(* no init_search before it.                                                 *)
InitMisuse == InitFrontier \/ Init

NextMisuse ==
  \/ \E gval \in 0..MaxKey, hval \in 0..MaxKey :
       gval + hval <= MaxKey /\ FrontierInsert(gval, hval)
  \/ FrontierExtract
  \/ pc = "new" /\ \E timebound \in TimeBounds, cb \in CostBounds : Search(timebound, cb)

SpecMisuse == InitMisuse /\ [][NextMisuse]_vars

(* ---------------- properties ---------------- *)

(* The elements of a sequence, and the sequence with position k taken out. *)
Elems(seq) == {seq[k] : k \in 1..Len(seq)}
RECURSIVE BagOf(_)
BagOf(seq) ==
  IF seq = <<>> THEN <<>>
  ELSE LET b == BagOf(Tail(seq))
           c == IF Head(seq) \in DOMAIN b THEN b[Head(seq)] + 1 ELSE 1
       IN  DictSet(b, Head(seq), c)

(* The frontier holds, after the last extract(), what it held before less the node returned. *)
ExtractTookOne ==
  /\ Val(node) \in Elems(h_before)
  /\ BagOf(Val(open_nodes).open) =
       [m \in Elems(h_before) \ {Val(node)} |-> BagOf(h_before)[m]]

(* C9: extract() of a depth-first frontier returns the most recently inserted     *)
(* node still present, and extract() of a breadth-first frontier returns the      *)
(* least recently inserted node still present (nodes are numbered as inserted).   *)
C9_StackAndQueueOrder ==
  (pc = "extracted" /\ strategy \in {_DEPTH_FIRST, _BREADTH_FIRST}) =>
    /\ ExtractTookOne
    /\ strategy = _DEPTH_FIRST => \A m \in Elems(h_before) : m.index <= Val(node).index
    /\ strategy = _BREADTH_FIRST => \A m \in Elems(h_before) : m.index >= Val(node).index

C9_Witness ==
  /\ pc = "extracted"
  /\ strategy \in {_DEPTH_FIRST, _BREADTH_FIRST}
  /\ Len(h_before) >= 3
  /\ SearchNode_n = MaxInserts

(* The key a priority frontier of strategy s orders node m by. *)
Key(s, m) ==
  CASE s = _UCS -> m.gval
    [] s = _BEST_FIRST -> m.hval
    [] s = _ASTAR -> m.gval + m.hval
    [] s = _CUSTOM -> ApplyFval(m.fval_function, m)

(* C10: extract() of a uniform-cost, best-first, A* or custom frontier returns a  *)
(* node of the frontier whose key (g, h, g + h, the scoring function's value) is  *)
(* minimal among the nodes the frontier held.                                     *)
C10_PriorityExtractsMinimum ==
  (pc = "extracted" /\ IsHeapStrategy(strategy)) =>
    /\ ExtractTookOne
    /\ \A m \in Elems(h_before) : Key(strategy, Val(node)) <= Key(strategy, m)

C10_Witness ==
  /\ pc = "extracted"
  /\ IsHeapStrategy(strategy)
  /\ Len(h_before) >= 3
  /\ \E m \in Elems(h_before) : Key(strategy, Val(node)) < Key(strategy, m)
  /\ h_before[1] # Val(node) \/ Len(Val(open_nodes).open) >= 2

(* The nodes of the frontier that were tied on the minimal key at the last extract(). *)
TiedOnMinimum ==
  {m \in Elems(h_before) : \A o \in Elems(h_before) : Key(strategy, m) <= Key(strategy, o)}

(* C11: extract() of a best-first frontier, among the nodes tied on the minimal  *)
(* h, and of an A* frontier, among the nodes tied on the minimal g + h, returns  *)
(* a node whose g is the largest among the tied nodes.                           *)
C11_TiesPreferLargerG ==
  (pc = "extracted" /\ strategy \in {_BEST_FIRST, _ASTAR}) =>
    /\ Val(node) \in TiedOnMinimum
    /\ \A m \in TiedOnMinimum : m.gval <= Val(node).gval

(* Tied nodes of different g were present, and the one of smaller g went in first. *)
C11_Witness ==
  /\ pc = "extracted"
  /\ strategy \in {_BEST_FIRST, _ASTAR}
  /\ \E m \in TiedOnMinimum : m.gval < Val(node).gval /\ m.index < Val(node).index

(* ---------------- properties of a search run ---------------- *)

(* The costs of the paths of at most k actions from identity i to a goal identity. *)
RECURSIVE PathCosts(_, _, _, _)
PathCosts(g, i, goals, k) ==
  (IF i \in goals THEN {0} ELSE {}) \cup
  (IF k = 0 THEN {}
   ELSE UNION {{g[i][e][2] + x : x \in PathCosts(g, g[i][e][1], goals, k - 1)} :
               e \in 1..Len(g[i])})

(* With non-negative costs a cheapest path repeats no identity: Len(g) actions suffice. *)
GoalCosts(g, i, goals) == PathCosts(g, i, goals, Len(g))

Admissible(g, goals, h) == \A i \in Ids(g) : \A x \in GoalCosts(g, i, goals) : h[i] <= x
Consistent(g, h) == \A i \in Ids(g) : \A e \in 1..Len(g[i]) : h[i] <= g[i][e][2] + h[g[i][e][1]]

(* search() has returned, and returned a state. *)
Done == pc = "done"
Found == Done /\ Val(ret).state # False
ReturnedState == states[Val(Val(ret).state)]

(* The run is one of uniform-cost search, or of A* with an admissible and *)
(* consistent heuristic, under full cycle checking with no bound.         *)
OptimalRegime ==
  /\ cc = _CC_FULL
  /\ costbound = None
  /\ search_stop_time = None
  /\ \/ strategy = _UCS
     \/ /\ strategy = _ASTAR
        /\ Admissible(graph, Val(goal_fn), Val(heur_fn))
        /\ Consistent(graph, Val(heur_fn))

(* C1: the state returned by uniform-cost search, or by A* with an admissible   *)
(* and consistent heuristic, under full cycle checking and no bound, has a gval *)
(* no greater than the cost of any path from the initial state to a goal.       *)
C1_ReturnedCostIsMinimal ==
  (Found /\ OptimalRegime) =>
    \A x \in GoalCosts(graph, InitHash, Val(goal_fn)) : ReturnedState.gval <= x

C1_Witness ==
  /\ Found
  /\ OptimalRegime
  /\ strategy = _ASTAR
  /\ \E i \in Ids(graph) : Val(heur_fn)[i] > 0
  /\ \E x \in GoalCosts(graph, InitHash, Val(goal_fn)) : ReturnedState.gval < x

(* The engine was built with cycle check 'default'. *)
DefaultCycleCheck == cc = ResolveCc("default", strategy)

(* The cost of the action from identity i to identity j. *)
ActionCost(g, i, j) == CHOOSE c \in {g[i][e][2] : e \in 1..Len(g[i])} :
                         \E e \in 1..Len(g[i]) : g[i][e] = <<j, c>>

(* The sum of the action costs along the parent chain of arena state s. *)
RECURSIVE ChainCost(_, _, _)
ChainCost(g, sts, s) ==
  IF sts[s].parent = 0 THEN 0
  ELSE ActionCost(g, sts[sts[s].parent].hash, sts[s].hash) + ChainCost(g, sts, sts[s].parent)

(* A search with default cycle checking and no bound, for a reachable goal. *)
ReachableGoalRun ==
  /\ pc \in {"loop", "for", "done"}
  /\ DefaultCycleCheck
  /\ costbound = None
  /\ search_stop_time = None
  /\ GoalCosts(graph, InitHash, Val(goal_fn)) # {}

(* What search() returns is a goal state whose gval is the cost of its parent chain. *)
ReturnsGoalWithChainCost ==
  Done => /\ Found
          /\ ReturnedState.hash \in Val(goal_fn)
          /\ ReturnedState.gval = ChainCost(graph, states, Val(Val(ret).state))

(* The while loop can take its next turn without creating more than MaxStates states. *)
WithinBudget == pc = "loop" => ENABLED SearchOpen

(* C2: with default cycle checking, no bound and a reachable goal, search()      *)
(* returns a goal state whose gval is the sum of the action costs along its      *)
(* parent chain; returning includes that the run does not go on creating states. *)
C2_ReturnsGoalState == ReachableGoalRun => (ReturnsGoalWithChainCost /\ WithinBudget)

(* C3: under full cycle checking, once a node of some identity was expanded at   *)
(* cost c, no node of that identity is expanded later at a cost >= c.            *)
C3_NoReexpansionAtSameOrHigherCost ==
  cc = _CC_FULL =>
    \A k, l \in 1..Len(h_log) :
      (k < l /\ h_log[k].ev = "expand" /\ h_log[l].ev = "expand"
         /\ h_log[k].hash = h_log[l].hash) => h_log[l].gval < h_log[k].gval

(* The last successor processed was counted as cycle-pruned and not inserted. *)
LastCyclePruned ==
  /\ Val(h_last).outcome = "cycle"
  /\ n_cc_pruned = Val(h_last).n_cc_pruned + 1
  /\ n_cost_pruned = Val(h_last).n_cost_pruned
  /\ Val(open_nodes).open = Val(h_last).open

(* The last successor processed was counted as cost-pruned and not inserted. *)
LastCostPruned ==
  /\ Val(h_last).outcome = "cost"
  /\ n_cost_pruned = Val(h_last).n_cost_pruned + 1
  /\ n_cc_pruned = Val(h_last).n_cc_pruned
  /\ Val(open_nodes).open = Val(h_last).open

(* C4: under full cycle checking a successor is cycle-pruned whenever the        *)
(* dictionary holds an entry for its identity of cost <= its own, equal included. *)
C4_PrunedAtEqualOrHigherCost ==
  (h_last # None /\ cc = _CC_FULL /\ Val(h_last).entry # None
     /\ Val(Val(h_last).entry) <= Val(h_last).gval) => LastCyclePruned

(* C5: every write to an existing dictionary entry stores a strictly lower cost. *)
C5_WritesStrictlyLower ==
  \A k, l \in 1..Len(h_log) :
    (k < l /\ h_log[k].ev = "record" /\ h_log[l].ev = "record"
       /\ h_log[k].hash = h_log[l].hash) => h_log[l].gval < h_log[k].gval

(* C6: under full cycle checking, once the dictionary recorded cost c for an     *)
(* identity, no node of that identity of cost > c is expanded.                   *)
C6_NoExpansionAboveRecordedCost ==
  cc = _CC_FULL =>
    \A k, l \in 1..Len(h_log) :
      (k < l /\ h_log[k].ev = "record" /\ h_log[l].ev = "expand"
         /\ h_log[k].hash = h_log[l].hash) => h_log[l].gval <= h_log[k].gval

(* A costlier duplicate, inserted before the cheaper entry was recorded, has just *)
(* been extracted and skipped; the cheaper copy was expanded.                     *)
C6_Witness ==
  /\ cc = _CC_FULL
  /\ pc = "loop"
  /\ node # None
  /\ states[Val(node).state].hash \in DOMAIN path_to_gval
  /\ path_to_gval[states[Val(node).state].hash] < Val(node).gval
  /\ \E l \in 1..Len(h_log) :
       /\ h_log[l].ev = "expand"
       /\ h_log[l].hash = states[Val(node).state].hash
       /\ h_log[l].gval < Val(node).gval
  /\ h_log[Len(h_log)].ev = "expand"

(* The identities of the ancestors of arena state s. *)
RECURSIVE AncestorHashes(_, _)
AncestorHashes(sts, s) ==
  IF sts[s].parent = 0 THEN {}
  ELSE {sts[sts[s].parent].hash} \cup AncestorHashes(sts, sts[s].parent)

OnOwnPath(sts, s) == sts[s].hash \in AncestorHashes(sts, s)

(* C7: under path cycle checking a successor whose identity is that of one of    *)
(* its ancestors is counted as cycle-pruned and not inserted; no node of the     *)
(* frontier repeats an ancestor's identity; the dictionary stays unused.         *)
C7_PathCyclesRejected ==
  (cc = _CC_PATH /\ open_nodes # None) =>
    /\ \A m \in Elems(Val(open_nodes).open) : ~OnOwnPath(states, m.state)
    /\ path_to_gval = <<>>
    /\ (h_last # None /\ OnOwnPath(states, Val(h_last).pos)) => LastCyclePruned

(* A successor that repeats its grandparent, not its parent, was rejected. *)
C7_Witness ==
  /\ cc = _CC_PATH
  /\ h_last # None
  /\ OnOwnPath(states, Val(h_last).pos)
  /\ states[states[Val(h_last).pos].parent].hash # Val(h_last).hash
  /\ LastCyclePruned

(* The successor (gval, hval) violates a component of the cost bound cb. *)
ViolatesBound(cb, gval, hval) ==
  /\ cb # None
  /\ \/ (Val(cb)[1] # Inf /\ gval > Val(Val(cb)[1]))
     \/ (Val(cb)[2] # Inf /\ hval > Val(Val(cb)[2]))
     \/ (Val(cb)[3] # Inf /\ gval + hval > Val(Val(cb)[3]))

LastViolatesBound ==
  h_last # None /\ ViolatesBound(costbound, Val(h_last).gval, Val(h_last).hval)

(* The cycle test had grounds to reject the last successor processed. *)
LastOnCycle ==
  \/ /\ cc = _CC_FULL
     /\ Val(h_last).entry # None
     /\ Val(h_last).gval > Val(Val(h_last).entry)
  \/ cc = _CC_PATH /\ OnOwnPath(states, Val(h_last).pos)

(* C8 as stated: a successor over the cost bound is not inserted and adds one to *)
(* the cost-pruned count.                                                        *)
C8_OverBoundCountedCostPruned == LastViolatesBound => LastCostPruned

(* C8 as amended: a successor over the cost bound is never inserted; it adds one *)
(* to the cost-pruned count unless the cycle test rejects it first, and then it  *)
(* adds one to the cycle-pruned count only.                                      *)
C8_OverBoundNeverInserted ==
  LastViolatesBound =>
    IF LastOnCycle THEN LastCyclePruned ELSE LastCostPruned

C8_Witness ==
  /\ LastViolatesBound
  /\ LastCostPruned
  /\ Val(costbound)[3] # Inf
  /\ Val(h_last).hval > 0

(* A search under full or path cycle checking with no time bound, for a goal *)
(* that no path from the initial state reaches.                             *)
UnreachableGoalRun ==
  /\ pc \in {"loop", "for", "done"}
  /\ cc \in {_CC_FULL, _CC_PATH}
  /\ search_stop_time = None
  /\ GoalCosts(graph, InitHash, Val(goal_fn)) = {}

(* search() returned False with the statistics, the frontier being empty. *)
ReturnsExhausted ==
  Done => /\ Val(ret).state = False
          /\ IsEmpty(Val(open_nodes))
          /\ h_inv.outcome = Some("exhausted")
          /\ Val(ret).stats.states_generated = StateSpace_n

(* A state search() returns satisfies the goal predicate. *)
ReturnsOnlyGoals == Found => ReturnedState.hash \in Val(goal_fn)

(* C14: with full or path cycle checking, no time bound and no reachable goal,  *)
(* search() empties the frontier and returns (False, statistics); returning     *)
(* includes that the run does not go on creating states.  No call of search()   *)
(* returns a state that fails the goal predicate.                               *)
C14_ExhaustionReturnsFalse ==
  /\ UnreachableGoalRun => (ReturnsExhausted /\ WithinBudget)
  /\ ReturnsOnlyGoals

(* C17: the expanded count of the statistics search() returns is the number of  *)
(* nodes whose successors were enumerated during the call; nodes skipped as     *)
(* stale, the node returned as the goal and nodes never extracted do not count. *)
C17_ExpandedCountsExpansions ==
  Done => Val(ret).stats.states_expanded = h_inv.expanded

(* What the count is: the number of SearchNode objects created since init_search. *)
ExpandedCountsNodesCreated ==
  Done => Val(ret).stats.states_expanded = SearchNode_n

(* ---------------- properties of an engine used again ---------------- *)

(* init_search has returned and search() was not called yet. *)
Initialised == pc = "ready"

(* C18: after init_search on an engine with full cycle checking the dictionary  *)
(* holds one entry, initial identity -> 0, and the frontier holds the initial   *)
(* node alone; also when the engine has run a search before.                    *)
C18_InitSearchStartsAfresh ==
  (Initialised /\ cc = _CC_FULL) =>
    /\ DOMAIN path_to_gval = {InitHash}
    /\ path_to_gval[InitHash] = 0
    /\ Len(Val(open_nodes).open) = 1
    /\ states[Val(open_nodes).open[1].state].hash = InitHash
    /\ Val(open_nodes).open[1].gval = 0

(* C19: the cycle-pruned and cost-pruned counts of the statistics search()      *)
(* returns are the prunings of that call, also when the engine has run a search *)
(* before.                                                                      *)
C19_PrunedCountsOfThisRun ==
  Done =>
    /\ Val(ret).stats.states_pruned_cycles = h_inv.cc_pruned
    /\ Val(ret).stats.states_pruned_cost = h_inv.cost_pruned

(* ---------------- properties of two engines ---------------- *)

(* The node last extracted had a minimal key, by the engine's own strategy, *)
(* among the nodes the frontier held.                                       *)
ExtractedByOwnStrategy ==
  (pc \in {"loop", "for", "done"} /\ node # None /\ IsHeapStrategy(strategy)) =>
    \A m \in Elems(h_before) : Key(strategy, Val(node)) <= Key(strategy, m)

(* The counts returned are those of the engine's own run: the nodes and the *)
(* states created since its init_search.                                    *)
CountsOfOwnRun ==
  Done => /\ Val(ret).stats.states_expanded = 1 + h_inv.inserted
          /\ Val(ret).stats.states_generated = Len(states)

(* C20: every extract() of a run orders the nodes by the engine's own strategy, *)
(* and the expanded and generated counts returned are those of its own run,     *)
(* also when a second engine of another priority strategy is initialised        *)
(* between the engine's init_search and the end of its search().                *)
C20_OwnOrderingAndCounts == ExtractedByOwnStrategy /\ CountsOfOwnRun

(* ---------------- properties of a search against the clock ---------------- *)

(* _searchOpen ended on its deadline test. *)
TimedOut == Done /\ h_inv.outcome = Some("timeout")

Observation ==
  [result |-> Val(ret), open |-> Val(open_nodes).open, path_to_gval |-> path_to_gval,
   n_cc_pruned |-> n_cc_pruned, n_cost_pruned |-> n_cost_pruned,
   strategy |-> strategy, cc |-> cc, goal_fn |-> goal_fn, heur_fn |-> heur_fn,
   search_start_time |-> search_start_time, search_stop_time |-> search_stop_time]

(* What the caller reads after the depth-first search of Diamond with path      *)
(* checking, no goal and timebound 1 started at time 0, when every deadline     *)
(* test passed, the frontier emptied after six nodes and the clock read 2 at    *)
(* the end.                                                                     *)
ExhaustedObservation ==
  [result |-> SearchResult(False, 6, 6, 0, 0, 2),
   open |-> <<>>, path_to_gval |-> <<>>, n_cc_pruned |-> 0, n_cost_pruned |-> 0,
   strategy |-> _DEPTH_FIRST, cc |-> _CC_PATH, goal_fn |-> Some({}),
   heur_fn |-> Some(_zero_hfn(Diamond)),
   search_start_time |-> Some(0), search_stop_time |-> Some(1)]

(* A search that emptied its frontier leaves ExhaustedObservation (its negation *)
(* is violated: the observation is one of an exhausted search).                 *)
ExhaustedObservationNotReached ==
  ~(Done /\ h_inv.outcome = Some("exhausted") /\ Observation = ExhaustedObservation)

(* C16: what the caller reads after a search() that timed out differs from what *)
(* it reads after a search() that emptied its frontier: no timed-out call       *)
(* leaves the observation an exhausted call leaves.                             *)
C16_TimeoutDistinguishable ==
  TimedOut => Observation # ExhaustedObservation

(* ---------------- properties of the configuration ---------------- *)

(* The engine is as its constructor left it. *)
JustConstructed == pc = "new" /\ h_call = None

(* C12: an engine constructed with cycle check 'default' (given or omitted) has  *)
(* path checking if its strategy is depth-first and full checking otherwise; an  *)
(* engine constructed with no arguments is breadth-first with full checking.     *)
C12_DefaultResolution ==
  JustConstructed =>
    /\ strategy = _SEARCH_STRATEGY_MAP[ArgOr(h_ctor.strategy, "breadth_first")]
    /\ h_ctor.cc \in {None, Some("default")} =>
         cc = (IF h_ctor.strategy = Some("depth_first") THEN _CC_PATH ELSE _CC_FULL)
    /\ (h_ctor.strategy = None /\ h_ctor.cc = None) =>
         (strategy = _BREADTH_FIRST /\ cc = _CC_FULL)

C12_Witness ==
  /\ JustConstructed
  /\ h_ctor.strategy = Some("depth_first")
  /\ h_ctor.cc = None
  /\ cc = _CC_PATH

(* The last configuration call was given an identifier its enumeration lacks. *)
LastCallUnknown ==
  /\ h_call # None
  /\ \/ Val(h_call).op = "set_strategy" /\ Val(h_call).arg \notin DOMAIN _SEARCH_STRATEGY_MAP
     \/ Val(h_call).op = "set_cycle_check" /\ Val(h_call).arg \notin DOMAIN _CYCLE_CHECK_MAP

(* The last configuration call took effect: the field it sets has the value of *)
(* the identifier, the other field is as before, nothing was raised.           *)
LastCallSucceeded ==
  /\ raised = None
  /\ Val(h_call).op = "set_strategy" =>
       (strategy = _SEARCH_STRATEGY_MAP[Val(h_call).arg] /\ cc = Val(h_call).cc)
  /\ Val(h_call).op = "set_cycle_check" =>
       /\ strategy = Val(h_call).strategy
       /\ cc = (CASE Val(h_call).arg = "none" -> _CC_NONE
                  [] Val(h_call).arg = "path" -> _CC_PATH
                  [] Val(h_call).arg = "full" -> _CC_FULL
                  [] OTHER -> IF strategy = _DEPTH_FIRST THEN _CC_PATH ELSE _CC_FULL)

(* C13: set_strategy and set_cycle_check given an unknown identifier raise and   *)
(* leave the strategy and the cycle-check mode as they were; a call with a known *)
(* identifier succeeds, also when the call before it raised.                     *)
C13_UnknownIdentifierRaises ==
  h_call # None =>
    IF LastCallUnknown
      THEN raised = Some("ValueError") /\ strategy = Val(h_call).strategy
           /\ cc = Val(h_call).cc
      ELSE LastCallSucceeded

(* A failed call was followed by one that changed the strategy. *)
C13_Witness ==
  /\ h_call # None
  /\ Val(h_call).prev_raised = Some("ValueError")
  /\ ~LastCallUnknown
  /\ raised = None
  /\ strategy # Val(h_call).strategy

(* C21: extract() on an empty frontier raises (IndexError) whatever the strategy, *)
(* and search() on an engine whose init_search was never called raises           *)
(* (AttributeError) and returns no result.                                       *)
C21_PreconditionViolationsRaise ==
  /\ (h_call # None /\ Val(h_call).op = "extract" /\ h_before = <<>>) =>
       (raised = Some("IndexError") /\ pc = "raised")
  /\ (runs = 0 /\ search_start_time # Some(-1)) =>
       (raised = Some("AttributeError") /\ pc = "raised" /\ ret = None)

(* A frontier of the custom strategy was filled, emptied, and extracted from again. *)
C21_Witness ==
  /\ strategy = _CUSTOM
  /\ SearchNode_n = MaxInserts
  /\ raised = Some("IndexError")
  /\ h_before = <<>>

(* C22: an error raised by successors(), goal_fn or heur_fn during init_search or  *)
(* search() reaches the caller.  The engine is never past a call that raises: the *)
(* call ends with that exception and without a result, no node whose heuristic   *)
(* raised is in the frontier, no node on which the goal test raised is examined   *)
(* further, and no node whose successors() raised counts as expanded.             *)
C22_ErrorsPropagate ==
  /\ raised # None => (raised = Some("Exception") /\ pc = "raised" /\ ret = None)
  /\ open_nodes # None =>
       \A m \in Elems(Val(open_nodes).open) : states[m.state].hash \notin faults.heur
  /\ (node # None /\ pc # "raised") => states[Val(node).state].hash \notin faults.goal
  /\ \A k \in 1..Len(h_log) :
       h_log[k].ev = "expand" => h_log[k].hash \notin faults.succ
  /\ (Done /\ Found) => ReturnedState.hash \notin faults.goal

(* successors() raised at the second expansion of a search. *)
C22_Witness ==
  /\ raised = Some("Exception")
  /\ faults.succ # {}
  /\ h_inv.expanded = 1
  /\ h_inv.extracted = 2

(* The call of solution.py last made is one of ops. *)
LastCallOf(ops) == h_call # None /\ Val(h_call).op \in ops

(* The costs of the solutions the engine searches of the last call found, in order. *)
FoundCosts == SelectSeq(h_iters, LAMBDA it : it.cost # None)

RECURSIVE SumOfTimes(_)
SumOfTimes(its) ==
  IF its = <<>> THEN 0 ELSE Val(Head(its).timebound) + SumOfTimes(Tail(its))

(* C23: fval_function(node, weight) returns node.gval + weight * node.hval (here  *)
(* in hundredths), and weighted_astar runs one search of the custom strategy      *)
(* ordered by that value and returns (goal state or False, statistics).           *)
C23_WeightedFvalAndSearch ==
  /\ LastCallOf({"fval_function"}) =>
       /\ raised = None
       /\ ret = Some(100 * Val(h_call).arg.node.gval
                     + Val(h_call).arg.weight * Val(h_call).arg.node.hval)
  /\ LastCallOf({"weighted_astar"}) =>
       /\ raised = None
       /\ ret # None
       /\ Len(h_iters) = 1
       /\ h_iters[1].strategy = _CUSTOM
       /\ h_iters[1].weight = Val(h_call).arg.weight
       /\ (Val(ret).state = False) <=> (h_iters[1].cost = None)

(* C24: iterative_astar and iterative_gbfs never regress: the costs found by     *)
(* their successive searches never increase, every search after a success runs  *)
(* under a cost bound set from the best cost so far (on g + h for                *)
(* iterative_astar, on g for iterative_gbfs), the state returned has the least   *)
(* cost found, and False is returned only when no search found a solution.       *)
C24_IterativeNeverRegresses ==
  LastCallOf({"iterative_astar", "iterative_gbfs"}) =>
    /\ raised = None
    /\ ret # None
    /\ \A i, j \in 1..Len(FoundCosts) :
         i < j => Val(FoundCosts[j].cost) <= Val(FoundCosts[i].cost)
    /\ \A j \in 2..Len(h_iters) :
         (\E i \in 1..(j - 1) : h_iters[i].cost # None) =>
           /\ h_iters[j].costbound # None
           /\ \E i \in 1..(j - 1) :
                /\ h_iters[i].cost # None
                /\ Val(h_iters[j].costbound)[IF Val(h_call).op = "iterative_astar"
                                               THEN 3 ELSE 1] = h_iters[i].cost
    /\ (Val(ret).state = False) <=> (FoundCosts = <<>>)
    /\ Val(ret).state # False =>
         \A i \in 1..Len(FoundCosts) : ReturnedState.gval <= Val(FoundCosts[i].cost)

(* C25: iterative_astar and iterative_gbfs charge all their searches to the one   *)
(* timebound of the caller: the time budgets of the successive searches sum to   *)
(* no more than it, and the call returns (best state or False, statistics).      *)
C25_TotalTimeBound ==
  LastCallOf({"iterative_astar", "iterative_gbfs"}) =>
    /\ raised = None
    /\ ret # None
    /\ \A i \in 1..Len(h_iters) : h_iters[i].timebound # None
    /\ SumOfTimes(h_iters) <= Val(Val(h_call).arg.timebound)
    /\ Val(ret).stats.total_time <= Val(Val(h_call).arg.timebound)

(* C26: on a Sokoban room with one robot, one box next to its only storage cell, *)
(* no obstacles and the robot placed for the push, search() with ucs and with    *)
(* astar (full cycle checking, initial gval 0) ends, and returns a goal state of *)
(* gval 1.                                                                       *)
C26_OnePushCostsOne ==
  /\ WithinBudget
  /\ Done => /\ Found
             /\ ReturnedState.hash \in Val(goal_fn)
             /\ ReturnedState.gval = 1

(* A* with the Manhattan heuristic has returned after expanding the initial state. *)
C26_Witness ==
  /\ Found
  /\ strategy = _ASTAR
  /\ Val(heur_fn)[InitHash] = 1
  /\ ReturnedState.gval = 1
  /\ h_inv.expanded >= 1

(* The current search() was given a timebound that sets a deadline. *)
DeadlineSet == h_inv.timebound # None /\ Val(h_inv.timebound) # 0

(* The node last extracted satisfies the goal predicate. *)
NodeIsGoal == node # None /\ states[Val(node).state].hash \in Val(goal_fn)

(* The for loop over the successors of the last expansion has run to its end. *)
ForLoopOver == si = 0 \/ si > Len(successors)

(* The order of the tests on an extracted node, without the count of deadline *)
(* tests: a goal node is returned as success whatever the clock reads; no     *)
(* search goes on after an extraction past the deadline, so no such node is   *)
(* tested for staleness or expanded; a timeout comes only between two turns   *)
(* of the while loop.                                                         *)
TestsInOrder ==
  /\ (pc \in {"loop", "for", "done"} /\ NodeIsGoal) =>
       (Found /\ Val(ret).state = Some(Val(node).state))
  /\ pc \in {"loop", "for"} => ~h_inv.late
  /\ TimedOut => (ForLoopOver /\ ~NodeIsGoal)

(* C27 (as stated): goal test, then deadline test, then staleness test and    *)
(* expansion; with a deadline set, the clock is compared with it exactly once *)
(* per extracted node.                                                        *)
C27_DeadlineOncePerExtraction ==
  /\ TestsInOrder
  /\ (pc \in {"loop", "for", "done"} /\ DeadlineSet) =>
       h_inv.deadline_tests = h_inv.extracted

(* C27 (amended): goal test, then deadline test, then staleness test and       *)
(* expansion; with a deadline set, the clock is compared with it exactly once  *)
(* per extracted node that fails the goal test, and not at all for the node    *)
(* returned as a goal.                                                         *)
C27_GoalTestThenDeadline ==
  /\ TestsInOrder
  /\ (pc \in {"loop", "for", "done"} /\ DeadlineSet) =>
       h_inv.deadline_tests =
         h_inv.extracted - (IF h_inv.outcome = Some("goal") THEN 1 ELSE 0)

(* A goal node extracted past the deadline was returned, after the deadline *)
(* tests of the nodes before it.                                            *)
C27_Witness ==
  /\ Found
  /\ h_inv.late
  /\ h_inv.extracted >= 2
  /\ h_inv.deadline_tests = h_inv.extracted - 1

(* ---------------- properties of a resumed search ---------------- *)

(* A step that is a call of search() made after an earlier search() returned. *)
ResumingCall == pc = "done" /\ pc' = "loop"

(* C28: a search() made after an earlier one returned, with no init_search in   *)
(* between, goes on from the frontier and the dictionary as they were left and  *)
(* creates no node or state; a node once returned is not in the frontier, is    *)
(* not returned a second time and is never expanded; and a call that finds the  *)
(* frontier empty returns False without expanding anything.                     *)
C28_ResumeFromFrontier ==
  /\ [][ResumingCall => UNCHANGED <<open_nodes, path_to_gval, SearchNode_n, StateSpace_n,
                                     states, n_cc_pruned, n_cost_pruned, goal_fn,
                                     heur_fn>>]_vars
  /\ [](open_nodes # None =>
          \A m \in Elems(Val(open_nodes).open) :
            \A k \in 1..Len(h_inv.returned) : m.index # h_inv.returned[k])
  /\ [](\A j, k \in 1..Len(h_inv.returned) :
          j # k => h_inv.returned[j] # h_inv.returned[k])
  /\ [](\A k \in 1..Len(h_inv.returned) : h_inv.returned[k] \notin h_inv.expanded_nodes)
  /\ []((Done /\ h_inv.extracted = 0) =>
          /\ Val(ret).state = False
          /\ h_inv.expanded = 0
          /\ h_inv.inserted = 0
          /\ Val(ret).stats.states_generated = StateSpace_n)

(* A second search() returned a second goal node, after expanding a node. *)
C28_Witness ==
  /\ Found
  /\ h_inv.resumed
  /\ Len(h_inv.returned) = 2
  /\ h_inv.expanded >= 1

(* ---------------- the dictionary and the frontier ---------------- *)

(* The dictionary has an entry for the identity of node m, of cost <= m.gval. *)
Recorded(m) ==
  /\ states[m.state].hash \in DOMAIN path_to_gval
  /\ path_to_gval[states[m.state].hash] <= m.gval

(* C29: under full cycle checking, from init_search on, the dictionary has for *)
(* every node in the frontier an entry for its identity, of cost at most the    *)
(* node's gval; so it has for the node just extracted, and the lookup of the    *)
(* staleness test finds its key.                                                *)
C29_FrontierNodesRecorded ==
  (cc = _CC_FULL /\ open_nodes # None) =>
    /\ \A m \in Elems(Val(open_nodes).open) : Recorded(m)
    /\ (node # None /\ pc \in {"loop", "for", "done"}) => Recorded(Val(node))

(* The frontier holds a node that costs more than the entry of its identity, *)
(* beside a cheaper node of the same identity.                               *)
C29_Witness ==
  /\ cc = _CC_FULL
  /\ pc = "loop"
  /\ \E m, n \in Elems(Val(open_nodes).open) :
       /\ states[m.state].hash = states[n.state].hash
       /\ path_to_gval[states[m.state].hash] < m.gval
       /\ path_to_gval[states[n.state].hash] = n.gval

(* A search under full cycle checking with no time bound. *)
FullUnboundedRun ==
  /\ pc \in {"loop", "for", "done"}
  /\ cc = _CC_FULL
  /\ search_stop_time = None

(* C30: under full cycle checking with no time bound, on a finite graph with     *)
(* non-negative action costs, search() terminates whatever the strategy: the run *)
(* does not go on creating states, and it ends on a goal or on an empty frontier. *)
C30_FullCheckingTerminates ==
  FullUnboundedRun =>
    /\ WithinBudget
    /\ Done => (Found \/ IsEmpty(Val(open_nodes)))

(* ---------------- termination under path checking ---------------- *)

(* A search under path cycle checking with no time bound. *)
PathUnboundedRun ==
  /\ pc \in {"loop", "for", "done"}
  /\ cc = _CC_PATH
  /\ search_stop_time = None

(* The path from the initial state to arena state s passes through no identity twice. *)
SimplePath(sts, s) ==
  Cardinality({sts[s].hash} \cup AncestorHashes(sts, s)) = Len(Ancestors(sts, s)) + 1

(* C31: under path cycle checking with no time bound, on a finite graph with    *)
(* cycles, search() terminates whatever the strategy: every node in the frontier *)
(* lies on a path that repeats no identity, so no path is longer than the number *)
(* of identities; the run does not go on creating states, and it ends on a goal  *)
(* or on an empty frontier.                                                      *)
C31_PathCheckingTerminates ==
  PathUnboundedRun =>
    /\ \A m \in Elems(Val(open_nodes).open) :
         /\ SimplePath(states, m.state)
         /\ Len(Ancestors(states, m.state)) < Len(graph)
    /\ WithinBudget
    /\ Done => (Found \/ (IsEmpty(Val(open_nodes)) /\ h_inv.outcome = Some("exhausted")))

(* Uniform-cost search has emptied the frontier of the graph with the zero-cost *)
(* cycle, after rejecting the successor that closed the cycle.                  *)
C31_Witness ==
  /\ PathUnboundedRun
  /\ graph = ZeroCycle
  /\ strategy = _UCS
  /\ Done
  /\ Val(ret).state = False
  /\ IsEmpty(Val(open_nodes))
  /\ n_cc_pruned >= 1

(* ---------------- the statistics of a run ---------------- *)

(* The successors of the last expansion that the for loop has yet to process. *)
SuccessorsLeft == IF pc = "for" THEN Len(successors) - si + 1 ELSE 0

(* The last successor processed was inserted as a new node and recorded by no *)
(* pruning counter.                                                           *)
LastInserted ==
  /\ Val(h_last).outcome = "inserted"
  /\ n_cc_pruned = Val(h_last).n_cc_pruned
  /\ n_cost_pruned = Val(h_last).n_cost_pruned
  /\ Len(Val(open_nodes).open) = Len(Val(h_last).open) + 1

NextTimedResume ==
  \/ \E goal \in GoalFns(graph) :
       pc = "new" /\ InitSearch(goal, _zero_hfn(graph), _fval_function)
  \/ pc \in {"ready", "done"} /\ \E timebound \in TimeBounds : Search(timebound, None)
  \/ SearchOpen
  \/ ForSuccessor
  \/ Tick

SpecTimedResume == Init /\ [][NextTimedResume]_vars

(* The iteration of _searchOpen that ends the search by timeout. *)
TimingOutStep == pc = "loop" /\ pc' = "done" /\ h_inv'.outcome = Some("timeout")

(* The indices of the nodes search() has returned since init_search. *)
ReturnedNodes == {h_inv.returned[k] : k \in 1..Len(h_inv.returned)}

(* C33: when search() returns by timeout, the node extracted in that iteration  *)
(* is gone from the frontier, was not expanded and was not put back; the other  *)
(* nodes of the frontier and the cycle-check dictionary are as they were before *)
(* the extraction; and no later search() on the engine expands or returns that  *)
(* node.                                                                        *)
C33_TimeoutDropsExtractedNode ==
  /\ [][TimingOutStep =>
          /\ ~IsEmpty(Val(open_nodes))
          /\ node' = Some(Extract(Val(open_nodes), lt_type)[1])
          /\ Elems(Val(open_nodes').open) = Elems(Val(open_nodes).open) \ {Val(node')}
          /\ Len(Val(open_nodes').open) = Len(Val(open_nodes).open) - 1
          /\ path_to_gval' = path_to_gval
          /\ states' = states
          /\ StateSpace_n' = StateSpace_n
          /\ SearchNode_n' = SearchNode_n
          /\ h_inv'.expanded = h_inv.expanded
          /\ h_inv'.inserted = h_inv.inserted
          /\ Val(node').index \in h_inv'.timed_out]_vars
  /\ [](pc \in {"loop", "for", "done"} =>
          /\ h_inv.timed_out \cap h_inv.expanded_nodes = {}
          /\ h_inv.timed_out \cap ReturnedNodes = {}
          /\ \A m \in Elems(Val(open_nodes).open) : m.index \notin h_inv.timed_out)

(* A search that went on after a timeout has returned, having expanded nodes, *)
(* with the node of the timeout never seen again.                             *)
C33_Witness ==
  /\ Done
  /\ h_inv.resumed
  /\ h_inv.timed_out # {}
  /\ h_inv.expanded >= 1
  /\ h_inv.outcome \in {Some("goal"), Some("exhausted")}

(* ---------------- a search given no deadline ---------------- *)

(* The current call of search() was given timebound None or 0. *)
NoTimebound == h_inv.timebound \in {None, Some(0)}

NewStrategies == {"depth_first", "astar", "dijkstra"}

(* One init_search, with a heuristic of 0 and the default scoring function, and *)
(* one search(), with set_strategy called whenever the caller has control:      *)
(* before init_search, before search() and after it.                            *)
NextReconfigure ==
  \/ \E goal \in GoalFns(graph) :
       pc = "new" /\ InitSearch(goal, _zero_hfn(graph), _fval_function)
  \/ pc = "ready" /\ \E cb \in CostBounds : Search(None, cb)
  \/ SearchOpen
  \/ ForSuccessor
  \/ \E name \in NewStrategies : SetStrategy(name)

SpecReconfigure == Init /\ [][NextReconfigure]_vars

(* The step is a call of set_strategy. *)
SetStrategyStep ==
  /\ h_call' # h_call
  /\ h_call' # None
  /\ Val(h_call').op = "set_strategy"

(* C35: set_strategy changes only the strategy tag.  The cycle-check mode, the  *)
(* frontier already built, the cycle-check dictionary and the pruning counters  *)
(* are as they were before the call, so the mode stays the one resolved from    *)
(* the constructor's arguments, whether or not the strategy is depth-first now. *)
C35_SetStrategyChangesStrategyOnly ==
  /\ [][SetStrategyStep =>
          /\ strategy' = StrategyAfter(Val(h_call').arg, strategy)
          /\ cc' = cc
          /\ open_nodes' = open_nodes
          /\ path_to_gval' = path_to_gval
          /\ n_cc_pruned' = n_cc_pruned
          /\ n_cost_pruned' = n_cost_pruned
          /\ lt_type' = lt_type
          /\ SearchNode_n' = SearchNode_n
          /\ StateSpace_n' = StateSpace_n
          /\ pc' = pc]_vars
  /\ [](cc = ResolveCc(ArgOr(h_ctor.cc, "default"),
                       _SEARCH_STRATEGY_MAP[ArgOr(h_ctor.strategy, "breadth_first")]))

(* An engine constructed with the default mode for a strategy other than    *)
(* depth-first has searched, pruned a successor and kept a frontier; then its *)
(* strategy was set to depth-first, and its mode is still full.              *)
C35_Witness ==
  /\ pc = "done"
  /\ h_ctor.cc = Some("default")
  /\ h_call # None
  /\ Val(h_call).op = "set_strategy"
  /\ Val(h_call).strategy # _DEPTH_FIRST
  /\ strategy = _DEPTH_FIRST
  /\ cc = _CC_FULL
  /\ ~IsEmpty(Val(open_nodes))
  /\ DOMAIN path_to_gval # {}
  /\ n_cc_pruned >= 1

(* ---------------- successors() of a Sokoban state on its own ---------------- *)

(* The rooms: width and height. *)
Rooms == {<<3, 1>>, <<2, 2>>, <<3, 2>>}
RoomCells(room) == (0..(room[1] - 1)) \X (0..(room[2] - 1))

(* The states a caller gives to successors(): one or two robots on cells of the *)
(* room (two may be given the same cell, or the cell of a box), up to two       *)
(* boxes, at most one obstacle, one storage cell, reached at cost 0 or 2.       *)
RobotCounts == {1, 2}
BoxCounts == {0, 1, 2}
SokobanStates ==
  UNION {{SokobanState("START", gval, None, room[1], room[2], robots, boxes,
                       {<<0, 0>>}, obstacles) :
            gval \in {0, 2},
            robots \in UNION {[1..n -> RoomCells(room)] : n \in RobotCounts},
            boxes \in {b \in SUBSET RoomCells(room) : Cardinality(b) \in BoxCounts},
            obstacles \in {o \in SUBSET RoomCells(room) : Cardinality(o) <= 1}} :
         room \in Rooms}

(* A caller calls self.successors() once and keeps the list; self is read *)
(* again after the call.                                                  *)
SokobanExpand(self) ==
  /\ pc = "new"
  /\ h_call' = Some(Call("successors", self))
  /\ ret' = Some([self |-> self, successors |-> SokobanSuccessors(self)])
  /\ pc' = "called"
  /\ UNCHANGED <<strategy, cc, n_cc_pruned, n_cost_pruned, open_nodes, path_to_gval,
                 goal_fn, heur_fn, fval_function, search_start_time, search_stop_time,
                 SearchNode_n, StateSpace_n, lt_type, states, graph, clock, node,
                 successors, si, costbound, h_before, h_log, h_last, h_inv, h_ctor,
                 raised, runs, engine2, faults, h_iters>>

InitSuccessors ==
  /\ graph \in {Diamond}
  /\ pc = "new"
  /\ faults = NoFaults
  /\ EngineInit(None, None)

NextSuccessors == \E self \in SokobanStates : SokobanExpand(self)

SpecSuccessors == InitSuccessors /\ [][NextSuccessors]_vars

(* successors() has been called on a state; the state, and the list returned. *)
Expanded == pc = "called" /\ Val(h_call).op = "successors"
ExpandedState == Val(h_call).arg
Returned == Val(ret).successors
ReturnedStates == {Returned[k] : k \in 1..Len(Returned)}

(* The boxes of state s are in bounds and off the obstacles. *)
BoxesWellPlaced(s) == \A box \in s.boxes : _in_bounds(s, box) /\ box \notin s.obstacles

(* The robot that action (a robot, numbered from 0, and a direction) moved. *)
MovedRobot(s) == s.robots[s.action.robot + 1]

(* C36: for a state whose boxes are in bounds and off the obstacles, every     *)
(* state successors() returns has as many boxes, all in bounds, off the        *)
(* obstacles and on distinct cells, has the moved robot in bounds and off the  *)
(* obstacles, costs one more than the expanded state, has it as parent, and    *)
(* has its width, height, storage and obstacles; the expanded state is as it   *)
(* was before the call.                                                        *)
C36_SuccessorsWellFormed ==
  (Expanded /\ BoxesWellPlaced(ExpandedState)) =>
    /\ \A s \in ReturnedStates :
         /\ Cardinality(s.boxes) = Cardinality(ExpandedState.boxes)
         /\ BoxesWellPlaced(s)
         /\ _in_bounds(s, MovedRobot(s))
         /\ MovedRobot(s) \notin s.obstacles
         /\ s.gval = ExpandedState.gval + 1
         /\ s.parent = Some(ExpandedState)
         /\ s.width = ExpandedState.width
         /\ s.height = ExpandedState.height
         /\ s.storage = ExpandedState.storage
         /\ s.obstacles = ExpandedState.obstacles
         /\ Len(s.robots) = Len(ExpandedState.robots)
         /\ \A r \in 1..Len(s.robots) :
              r # s.action.robot + 1 => s.robots[r] = ExpandedState.robots[r]
    /\ Val(ret).self = ExpandedState

(* A state with two boxes and an obstacle was expanded: one successor pushes a *)
(* box, and a push against the other box is not among them.                   *)
C36_Witness ==
  /\ Expanded
  /\ BoxesWellPlaced(ExpandedState)
  /\ Cardinality(ExpandedState.boxes) = 2
  /\ ExpandedState.obstacles # {}
  /\ \E s \in ReturnedStates : s.boxes # ExpandedState.boxes
  /\ \E r \in 1..Len(ExpandedState.robots), d \in {UP, RIGHT, DOWN, LEFT} :
       /\ Move(d, ExpandedState.robots[r]) \in ExpandedState.boxes
       /\ Move(d, Move(d, ExpandedState.robots[r])) \in ExpandedState.boxes
       /\ Step(ExpandedState, r, d) = None

(* Robots and boxes of state s are on pairwise distinct cells. *)
AllOnDistinctCells(s) ==
  Cardinality({s.robots[r] : r \in 1..Len(s.robots)} \cup s.boxes)
    = Len(s.robots) + Cardinality(s.boxes)

(* C37: for a state whose robots and boxes are on pairwise distinct cells,  *)
(* every state successors() returns has its robots and boxes on pairwise    *)
(* distinct cells: no robot has moved onto the cell of another robot and no *)
(* box was pushed onto the cell of a robot.                                 *)
C37_RobotsAndBoxesStayApart ==
  (Expanded /\ AllOnDistinctCells(ExpandedState)) =>
    \A s \in ReturnedStates : AllOnDistinctCells(s)

====
